---- MODULE Spec2Model ----
(***************************************************************************)
(* A model of the networked entity-component-system of                     *)
(* whotookmytennents.com: the Registry (entity store, query index, system  *)
(* list), the ActionsManager (validated, queued commands), the Engine's    *)
(* fixed tick and the server room's GAME_ACTION message handler.           *)
(***************************************************************************)
EXTENDS Integers, Sequences, FiniteSets, TLC

(***************************************************************************)
(* Bounds of the model.                                                    *)
(***************************************************************************)
\* Entity.nextId is capped: at most this many entities are ever created.
MaxEntities == 2
\* Distinct component instances per component type (object identities).
MaxInst == 2

(***************************************************************************)
(* Program constants.                                                      *)
(***************************************************************************)
TransformId == 191
RigidbodyId == 196
ProjectileComponentId == 2

ComponentIds == {TransformId, RigidbodyId, ProjectileComponentId}

\* A component class, as far as the engine can tell it from another: its
\* name and its static COMPONENT_ID.
Class(name, id) == [name |-> name, COMPONENT_ID |-> id]

\* The class the model passes where only the COMPONENT_ID is read.
ClassOf(id) == Class("", id)

Transform == Class("Transform", TransformId)
Rigidbody == Class("Rigidbody", RigidbodyId)
ProjectileComponent == Class("ProjectileComponent", ProjectileComponentId)

\* JavaScript's undefined, as returned by Map.get on a missing key.
Undefined == [undefined |-> TRUE]

(***************************************************************************)
(* Number.prototype.toString (base 10) as a sequence of digits, and the    *)
(* code-unit order Array.prototype.sort uses on strings.                   *)
(***************************************************************************)
RECURSIVE toString(_)
toString(n) ==
  IF n < 10 THEN <<n>> ELSE toString(n \div 10) \o <<n % 10>>

RECURSIVE StrLess(_, _)
StrLess(a, b) ==
  IF a = <<>> THEN b # <<>>
  ELSE IF b = <<>> THEN FALSE
  ELSE IF Head(a) # Head(b) THEN Head(a) < Head(b)
  ELSE StrLess(Tail(a), Tail(b))

\* The character "," of Array.prototype.join(","); digits are 0..9.
Comma == 44

getComponentIdFromConstructor(component) == toString(component.COMPONENT_ID)

getComponentIdFromInstance(component) == toString(component.componentId)

\* Array.prototype.sort() without comparator on an array of strings: the
\* least string first, then the rest, sorted.
LeastIndex(strs) ==
  CHOOSE i \in 1 .. Len(strs) :
    /\ \A j \in 1 .. Len(strs) : strs[j] = strs[i] \/ StrLess(strs[i], strs[j])
    /\ \A j \in 1 .. (i - 1) : strs[j] # strs[i]

RECURSIVE SortStrings(_)
SortStrings(strs) ==
  IF strs = <<>> THEN <<>>
  ELSE <<strs[LeastIndex(strs)]>> \o
       SortStrings(SubSeq(strs, 1, LeastIndex(strs) - 1) \o
                   SubSeq(strs, LeastIndex(strs) + 1, Len(strs)))

RECURSIVE Join(_)
Join(strs) ==
  IF strs = <<>> THEN <<>>
  ELSE IF Len(strs) = 1 THEN Head(strs)
  ELSE Head(strs) \o <<Comma>> \o Join(Tail(strs))

\* Registry.getEntityQueryKey(query).  A query is a Set of component
\* classes: the sequence of its members in insertion order.  The key is
\* the members' ids, as strings, sorted and joined by ",".  (The key cache
\* returns what this computes, as long as no query Set is changed after
\* its first use.)
getEntityQueryKey(query) ==
  Join(SortStrings([i \in 1 .. Len(query) |-> getComponentIdFromConstructor(query[i])]))

(***************************************************************************)
(* MapSchema / Map: a set of <<key, value>> pairs with Map's semantics.    *)
(***************************************************************************)
MapHas(m, k) == \E p \in m : p[1] = k

MapGet(m, k) == IF MapHas(m, k) THEN (CHOOSE p \in m : p[1] = k)[2] ELSE Undefined

MapSet(m, k, v) == {p \in m : p[1] # k} \cup {<<k, v>>}

MapDelete(m, k) == {p \in m : p[1] # k}

MapKeys(m) == {p[1] : p \in m}

(***************************************************************************)
(* Systems the game and the engine register.                               *)
(***************************************************************************)
SystemIds == {"physics", "player", "projectile", "mouse"}

\* System constructor arguments and the callbacks each system defines.
System(s) ==
  CASE s = "physics" ->
         [type |-> "SERVER_AND_CLIENT", query |-> <<Transform, Rigidbody>>,
          priority |-> 0, callbacks |-> {"fixedUpdate"}]
    [] s = "player" ->
         [type |-> "SERVER_AND_CLIENT", query |-> <<>>,
          priority |-> -1, callbacks |-> {"fixedUpdate"}]
    [] s = "projectile" ->
         [type |-> "SERVER_AND_CLIENT", query |-> <<Rigidbody, ProjectileComponent>>,
          priority |-> 0, callbacks |-> {"update"}]
    [] s = "mouse" ->
         [type |-> "CLIENT", query |-> <<>>,
          priority |-> 0, callbacks |-> {"update"}]
    \* Two systems a user of the engine may construct: the repository has
    \* no SERVER system and no system that defines stateUpdate.
    [] s = "server" ->
         [type |-> "SERVER", query |-> <<Transform>>,
          priority |-> 1, callbacks |-> {"update", "fixedUpdate", "stateUpdate"}]
    [] s = "sync" ->
         [type |-> "SERVER_AND_CLIENT", query |-> <<Rigidbody, Transform>>,
          priority |-> 0, callbacks |-> {"update", "stateUpdate"}]

queryKey(s) == getEntityQueryKey(System(s).query)

(***************************************************************************)
(* State.                                                                  *)
(***************************************************************************)
VARIABLES
  type,           \* Registry.type: "SERVER" or "CLIENT"
  nextId,         \* Entity.nextId (static counter)
  entities,       \* Registry.entities: MapSchema id -> Entity.components
  systems,        \* Registry.systems: sequence of system ids
  entityQueries,  \* Registry.entityQueries: sequence of queries
  queryEntities,  \* Registry.queryEntities: Map key -> set of ids
  lastOp,         \* the last Registry call and its arguments
  lastErr,        \* what that call threw: "none", "Error", "TypeError"
  players,        \* the Player objects, by session id
  handlers,       \* ActionsManager.handlers: the action types with a handler
  validators,     \* ActionsManager.validators: the action types with a validator
  actionQueue,    \* ActionsManager.actionQueue
  touched,        \* <<entity id, component id>> whose fields the last call wrote
  flushed,        \* the queue as it was when the last flush started
  trace,          \* what the last flush / update invoked, in order
  bodies,         \* PhysicsWorld.bodies: the entity ids that have a body
  clients,        \* per session: "none", "joined" (in state.players) or "left"
  roomInfo,       \* state.roomInfo: [startable, started]; order: the keys of
                  \* state.players in insertion order
  started,        \* Engine.started
  updateCallbacks,\* Engine.updateCallbacks: the types that have a callback
  timers,         \* the setTimeout callbacks of enqueue that have not run yet
  matter,         \* PhysicsWorld's maps and the Matter bodies, see PhysInit
  collisions,     \* PhysicsWorld.collisionEvents and the colliders' callbacks
  constraints,    \* PhysicsWorld.constraints and the joints of the Matter world
  replica,        \* the server's state.entities a client registry mirrors
  runs,           \* two runs of one script of actions, and Entity.nextId
  loop,           \* Engine: the clock and the accumulator of update()
  jump            \* a player's body and the ground below it, see NoJump

regVars == <<type, nextId, entities, systems, entityQueries, queryEntities,
             lastOp, lastErr>>

actVars == <<players, handlers, validators, actionQueue, touched, flushed, trace, bodies>>

\* The variables of the physics world's joints.
extVars == <<constraints, replica, runs, loop, jump>>

roomVars == <<clients, roomInfo, started, updateCallbacks, timers, matter, collisions, extVars>>

vars == <<regVars, actVars, roomVars>>

\* The ids `${Entity.nextId++}` can take within the bound.
Ids == {toString(n) : n \in 0 .. (MaxEntities - 1)}

Insts == 1 .. MaxInst

\* lastOp: op and its arguments; pre = the id was in the store before the
\* call; old = the instance of ctype the entity held before the call (0: none).
NoOp == [op |-> "none", id |-> <<>>, ctype |-> -1, inst |-> -1, old |-> 0, msg |-> Undefined,
         sid |-> "none", pre |-> FALSE]

InstOf(ents, id, ctype) ==
  IF MapHas(ents, id) /\ MapHas(MapGet(ents, id), toString(ctype))
  THEN MapGet(MapGet(ents, id), toString(ctype)).inst
  ELSE 0

(***************************************************************************)
(* Entity (static helpers).  An entity is its components map; the value    *)
(* stored for a component is the instance: [componentId, inst].            *)
(***************************************************************************)
Component(ctype, inst) == [componentId |-> ctype, inst |-> inst]

\* A components.set that appends instead of replacing.
addComponentNoReplace(components, component) ==
  components \cup {<<getComponentIdFromInstance(component), component>>}

addComponent(components, component) ==
  MapSet(components, getComponentIdFromInstance(component), component)

removeComponent(components, ctype) ==
  IF ~MapHas(components, getComponentIdFromConstructor(ctype))
  THEN components
  ELSE MapDelete(components, getComponentIdFromConstructor(ctype))

hasComponent(components, ctype) ==
  MapHas(components, getComponentIdFromConstructor(ctype))

\* A getComponent that returns the lookup's result without the has-check.
getComponentSilent(components, ctype) ==
  [err |-> "none", ret |-> MapGet(components, getComponentIdFromConstructor(ctype))]

\* Entity.getComponent: [err, ret]
getComponent(components, ctype) ==
  IF ~MapHas(components, getComponentIdFromConstructor(ctype))
  THEN [err |-> "Error", ret |-> Undefined]
  ELSE [err |-> "none", ret |-> MapGet(components, getComponentIdFromConstructor(ctype))]

matchesQuery(components, query) ==
  \A i \in 1 .. Len(query) : hasComponent(components, query[i])

(***************************************************************************)
(* Registry private helpers.                                               *)
(***************************************************************************)
\* A type check that admits every system.
doesSystemTypeMatchAny(s, regType) == TRUE

doesSystemTypeMatch(s, regType) ==
  \/ System(s).type = "SERVER_AND_CLIENT"
  \/ (System(s).type = "SERVER" /\ regType = "SERVER")
  \/ (System(s).type = "CLIENT" /\ regType = "CLIENT")

\* systems.sort((a, b) => b.priority - a.priority): stable, descending.
RECURSIVE SortByPriority(_)
SortByPriority(syss) ==
  IF syss = <<>> THEN <<>>
  ELSE LET i == CHOOSE j \in 1 .. Len(syss) :
                  /\ \A k \in 1 .. Len(syss) :
                       System(syss[k]).priority <= System(syss[j]).priority
                  /\ \A k \in 1 .. (j - 1) :
                       System(syss[k]).priority < System(syss[j]).priority
       IN  <<syss[i]>> \o
           SortByPriority(SubSeq(syss, 1, i - 1) \o SubSeq(syss, i + 1, Len(syss)))

RECURSIVE getAllEntityQueriesFrom(_, _, _)
getAllEntityQueriesFrom(syss, queries, keys) ==
  IF syss = <<>> THEN queries
  ELSE LET k == getEntityQueryKey(System(Head(syss)).query)
       IN  IF k \notin keys
           THEN getAllEntityQueriesFrom(Tail(syss),
                                        Append(queries, System(Head(syss)).query),
                                        keys \cup {k})
           ELSE getAllEntityQueriesFrom(Tail(syss), queries, keys)

getAllEntityQueries(syss) == getAllEntityQueriesFrom(syss, <<>>, {})

SeqRange(s) == {s[i] : i \in 1 .. Len(s)}

\* Registry.updateEntityMaps: the new queryEntities for these systems.
updateEntityMaps(syss, ents) ==
  LET eq == getAllEntityQueries(syss)
  IN  [k \in {getEntityQueryKey(q) : q \in SeqRange(eq)} |->
         {id \in MapKeys(ents) :
            \E q \in SeqRange(eq) :
              getEntityQueryKey(q) = k /\ matchesQuery(MapGet(ents, id), q)}]

\* Registry.updateEntityMapsForEntity(entity), entity = [id, components].
updateEntityMapsForEntity(entity, eq, qe) ==
  [k \in DOMAIN qe |->
     IF \E q \in SeqRange(eq) : getEntityQueryKey(q) = k
     THEN LET q == CHOOSE q \in SeqRange(eq) : getEntityQueryKey(q) = k
          IN  IF matchesQuery(entity.components, q)
              THEN qe[k] \cup {entity.id}
              ELSE qe[k] \ {entity.id}
     ELSE qe[k]]

\* Registry.deleteEntityFromEntityMaps(entity): [err, qe].  Reading .id of
\* undefined inside the loop body is a TypeError.
deleteEntityFromEntityMaps(entity, eq, qe) ==
  IF eq = <<>> THEN [err |-> "none", qe |-> qe]
  ELSE IF entity = Undefined THEN [err |-> "TypeError", qe |-> qe]
  ELSE [err |-> "none",
        qe |-> [k \in DOMAIN qe |->
                  IF \E q \in SeqRange(eq) : getEntityQueryKey(q) = k
                  THEN qe[k] \ {entity.id}
                  ELSE qe[k]]]

\* this.entities.get(id): the Entity stored under id, or undefined.
EntityOf(ents, id) ==
  IF MapHas(ents, id) THEN [id |-> id, components |-> MapGet(ents, id)] ELSE Undefined

(***************************************************************************)
(* Players, action types and payloads.                                     *)
(***************************************************************************)
\* Upper bound on the length of the action queue.
MaxQueue == 3

\* The session ids of the clients of a room.
Sessions == {"s1", "s2"}

\* The client of a room with one client.
Solo == {"s1"}

Vec2(x, y) == [x |-> x, y |-> y]

\* new Player(sessionId, name, isHost): no entities yet, zero vectors.
Player(sessionId, isHost) ==
  [sessionId |-> sessionId, isHost |-> isHost, entity |-> <<>>, fistEntity |-> <<>>,
   portalGunEntity |-> <<>>, dir |-> Vec2(0, 0), mouseDir |-> Vec2(0, 0),
   portals |-> {}]

\* enum ActionType
MOVE_PLAYER == 0
TOGGLE_ATTACK_MODE == 1
PORTAL_ATTACK == 2
COMBAT_ATTACK == 3
MOUSE_DIR == 4

ActionType == {MOVE_PLAYER, TOGGLE_ATTACK_MODE, PORTAL_ATTACK, COMBAT_ATTACK, MOUSE_DIR}

PlayerComponentId == 0
SpriteTagId == 1
RectangleColliderId == 193
RenderableId == 197
PortalGroundComponentId == 1

SpriteTag == Class("SpriteTag", SpriteTagId)
PortalGroundComponent == Class("PortalGroundComponent", PortalGroundComponentId)

\* A payload is a JavaScript object: a record with the fields it has; the
\* field player holds the session id of the Player object it refers to.
HasField(data, f) == data # Undefined /\ f \in DOMAIN data

(***************************************************************************)
(* The game's validators: "true", "false", or "throw" when the payload is  *)
(* undefined and the validator reads a field of it.                        *)
(***************************************************************************)
Truthy(b) == IF b THEN "true" ELSE "false"

movePlayerActionValidator(data) ==
  IF data = Undefined THEN "throw"
  ELSE Truthy(HasField(data, "player") /\ HasField(data, "dir"))

toggleAttackModeActionValidator(data) ==
  IF data = Undefined THEN "throw"
  ELSE Truthy(HasField(data, "player") /\ HasField(data, "type"))

portalAttackActionValidator(data) ==
  IF data = Undefined THEN "throw"
  ELSE Truthy(HasField(data, "player") /\ HasField(data, "type") /\ HasField(data, "mouseDir"))

combatAttackActionValidator(data) ==
  IF data = Undefined THEN "throw"
  ELSE Truthy(HasField(data, "player") /\ HasField(data, "type") /\ HasField(data, "mouseDir"))

mouseDirActionValidator(data) ==
  IF data = Undefined THEN "throw"
  ELSE Truthy(HasField(data, "player") /\ HasField(data, "dir"))

\* The validator Game.start registers for the action type.
validator(action, data) ==
  CASE action = MOVE_PLAYER -> movePlayerActionValidator(data)
    [] action = TOGGLE_ATTACK_MODE -> toggleAttackModeActionValidator(data)
    [] action = PORTAL_ATTACK -> portalAttackActionValidator(data)
    [] action = COMBAT_ATTACK -> combatAttackActionValidator(data)
    [] action = MOUSE_DIR -> mouseDirActionValidator(data)

(***************************************************************************)
(* The world a handler acts on: a record of the state it can read and      *)
(* write, with the error it raised and the trace of what was invoked.      *)
(***************************************************************************)
World ==
  [players |-> players, nextId |-> nextId, entities |-> entities,
   queryEntities |-> queryEntities, touched |-> {}, bodies |-> bodies,
   queue |-> actionQueue, trace |-> <<>>, err |-> "none"]

Throw(w, e) == [w EXCEPT !.err = e]

\* No error has been raised in the world so far.
Ok(w) == w.err = "none"

\* registry.has(id)
wHas(w, id) == MapHas(w.entities, id)

\* registry.has(id) && the entity has the component: what registry.get(id,
\* component) needs in order not to throw.
wHasComponent(w, id, ctype) ==
  wHas(w, id) /\ hasComponent(MapGet(w.entities, id), ClassOf(ctype))

\* A write to a field of the component ctype of entity id.
Touch(w, id, ctype) == [w EXCEPT !.touched = @ \cup {<<id, ctype>>}]

RECURSIVE addComponents(_, _)
addComponents(components, cs) ==
  IF cs = <<>> THEN components
  ELSE addComponents(addComponent(components, Head(cs)), Tail(cs))

\* registry.create() followed by registry.add(id, c) for each component c
\* of the sequence cs.
wCreateWith(w, cs) ==
  LET id == toString(w.nextId)
      ents == MapSet(w.entities, id, addComponents({}, cs))
  IN  [w EXCEPT !.nextId = @ + 1,
                !.entities = ents,
                !.queryEntities =
                   IF type = "SERVER"
                   THEN updateEntityMapsForEntity(EntityOf(ents, id), entityQueries, @)
                   ELSE @]

(***************************************************************************)
(* The game's action handlers.                                             *)
(***************************************************************************)
movePlayerAction(w, data) ==
  IF ~HasField(data, "player") \/ ~HasField(data, "dir") THEN w
  ELSE LET w1 == [w EXCEPT !.players[data.player].dir = data.dir]
           e == w.players[data.player].entity
       IN  IF ~wHas(w1, e) THEN w1
           ELSE IF ~wHasComponent(w1, e, RigidbodyId) \/ ~wHasComponent(w1, e, TransformId)
                   \/ ~wHasComponent(w1, e, RectangleColliderId)
           THEN Throw(w1, "Error")
           ELSE Touch(w1, e, RigidbodyId)

toggleAttackModeAction(w, data) ==
  IF ~HasField(data, "player") THEN w
  ELSE LET e == w.players[data.player].entity
           gun == w.players[data.player].portalGunEntity
       IN  IF ~wHas(w, e) THEN w
           ELSE IF ~wHasComponent(w, e, PlayerComponentId) THEN Throw(w, "Error")
           ELSE IF ~wHasComponent(w, gun, SpriteTagId)
           THEN Throw(Touch(w, e, PlayerComponentId), "Error")
           ELSE Touch(Touch(w, e, PlayerComponentId), gun, SpriteTagId)

portalAttackAction(w, data) ==
  IF type = "CLIENT" THEN w
  ELSE LET e == w.players[data.player].entity
           gun == w.players[data.player].portalGunEntity
       IN  IF ~wHas(w, e) THEN w
           ELSE IF ~wHasComponent(w, gun, TransformId) THEN Throw(w, "Error")
           ELSE wCreateWith(w, <<Component(TransformId, 1), Component(RenderableId, 1),
                                  Component(SpriteTagId, 1),
                                  Component(ProjectileComponentId, 1),
                                  Component(RigidbodyId, 1),
                                  Component(RectangleColliderId, 1)>>)

combatAttackAction(w, data) == w

mouseDirAction(w, data) ==
  [w EXCEPT !.players[data.player].mouseDir = data.dir]

\* The handler Game.start registers for the action type.
handler(w, action, data) ==
  CASE action = MOVE_PLAYER -> movePlayerAction(w, data)
    [] action = TOGGLE_ATTACK_MODE -> toggleAttackModeAction(w, data)
    [] action = PORTAL_ATTACK -> portalAttackAction(w, data)
    [] action = COMBAT_ATTACK -> combatAttackAction(w, data)
    [] action = MOUSE_DIR -> mouseDirAction(w, data)

(***************************************************************************)
(* ActionsManager.                                                         *)
(***************************************************************************)
Event(kind, a) == [kind |-> kind, action |-> a.action, data |-> a.data, sid |-> ""]

\* fire without the validator's verdict: a rejected payload reaches the handler.
fireNoValidate(w, a) ==
  IF a.action \notin handlers THEN w
  ELSE LET v == validator(a.action, a.data)
       IN  IF v = "throw" THEN Throw(w, "TypeError")
           ELSE handler([w EXCEPT !.trace = Append(@, Event("handler", a))],
                        a.action, a.data)

\* fire that raises when the action type has no handler.
fireThrowOnMissing(w, a) ==
  IF a.action \notin handlers THEN Throw(w, "Error")
  ELSE IF a.action \notin validators THEN w
  ELSE LET v == validator(a.action, a.data)
       IN  IF v = "throw" THEN Throw(w, "TypeError")
           ELSE IF v = "false" THEN w
           ELSE handler([w EXCEPT !.trace = Append(@, Event("handler", a))],
                        a.action, a.data)

\* ActionsManager.fire(engine, action, data, dt)
fire(w, a) ==
  IF a.action \notin handlers THEN w
  ELSE IF a.action \notin validators THEN w
  ELSE LET v == validator(a.action, a.data)
       IN  IF v = "throw" THEN Throw(w, "TypeError")
           ELSE IF v = "false" THEN w
           ELSE handler([w EXCEPT !.trace = Append(@, Event("handler", a))],
                        a.action, a.data)

\* The for-of loop of flush: it reads the live queue at every step, and an
\* error leaves the loop before the queue is cleared.
RECURSIVE flushFrom(_, _)
flushFrom(w, i) ==
  IF ~Ok(w) THEN w
  ELSE IF i > Len(w.queue) THEN [w EXCEPT !.queue = <<>>]
  ELSE flushFrom(fire(w, w.queue[i]), i + 1)

\* flush that dispatches the queue and keeps it.
flushWorldNoClear(w) == [flushFrom(w, 1) EXCEPT !.queue = w.queue]

\* ActionsManager.flush(engine, dt)
flushWorld(w) == flushFrom(w, 1)

\* The world a call leaves behind, written back to the state.
SetWorld(w) ==
  /\ players' = w.players
  /\ nextId' = w.nextId
  /\ entities' = w.entities
  /\ queryEntities' = w.queryEntities
  /\ touched' = w.touched
  /\ bodies' = w.bodies
  /\ actionQueue' = w.queue
  /\ trace' = w.trace
  /\ lastErr' = w.err

\* ActionsManager.enqueue(action, data) without delay.
enqueue(action, data) ==
  /\ Len(actionQueue) < MaxQueue
  /\ actionQueue' = Append(actionQueue, [action |-> action, data |-> data])
  /\ lastOp' = [NoOp EXCEPT !.op = "enqueue"]
  /\ lastErr' = "none"
  /\ flushed' = <<>>
  /\ trace' = <<>>
  /\ touched' = {}
  /\ UNCHANGED <<type, nextId, entities, systems, entityQueries, queryEntities,
                 players, handlers, validators, bodies>>

\* ActionsManager.register(action, handler, validator) with the game's
\* handler and validator of that action type.
register(action) ==
  /\ handlers' = handlers \cup {action}
  /\ validators' = validators \cup {action}
  /\ lastOp' = [NoOp EXCEPT !.op = "register"]
  /\ lastErr' = "none"
  /\ flushed' = <<>>
  /\ trace' = <<>>
  /\ touched' = {}
  /\ UNCHANGED <<type, nextId, entities, systems, entityQueries, queryEntities,
                 players, actionQueue, bodies>>

unregister(action) ==
  /\ handlers' = handlers \ {action}
  /\ validators' = validators \ {action}
  /\ lastOp' = [NoOp EXCEPT !.op = "unregister"]
  /\ lastErr' = "none"
  /\ flushed' = <<>>
  /\ trace' = <<>>
  /\ touched' = {}
  /\ UNCHANGED <<type, nextId, entities, systems, entityQueries, queryEntities,
                 players, actionQueue, bodies>>

\* A call of ActionsManager.flush(engine, dt).
flush ==
  /\ SetWorld(flushWorld(World))
  /\ flushed' = actionQueue
  /\ lastOp' = [NoOp EXCEPT !.op = "flush"]
  /\ UNCHANGED <<type, systems, entityQueries, handlers, validators>>

\* Upper bound on the number of timers that have not run yet.
MaxTimers == 2

\* The optional argument delay: absent (<<>>), 0 or one millisecond.
Delays == {<<>>, <<0>>, <<1>>}

\* if (delay)
DelayGiven(delay) == delay # <<>> /\ delay[1] # 0

\* An enqueue that treats every call as one without delay.
enqueueDelayIgnored(action, data, delay) ==
  /\ Len(actionQueue) < MaxQueue
  /\ actionQueue' = Append(actionQueue, [action |-> action, data |-> data])
  /\ lastOp' = [NoOp EXCEPT !.op = "enqueue",
                            !.inst = IF DelayGiven(delay) THEN delay[1] ELSE -1]
  /\ lastErr' = "none"
  /\ flushed' = <<>>
  /\ trace' = <<>>
  /\ touched' = {}
  /\ UNCHANGED <<type, nextId, entities, systems, entityQueries, queryEntities,
                 players, handlers, validators, bodies, roomVars>>

\* ActionsManager.enqueue(action, data, delay)
enqueueDelay(action, data, delay) ==
  IF DelayGiven(delay)
  THEN /\ Len(timers) < MaxTimers
       /\ timers' = Append(timers, [action |-> action, data |-> data])
       /\ lastOp' = [NoOp EXCEPT !.op = "enqueue", !.inst = delay[1]]
       /\ lastErr' = "none"
       /\ flushed' = <<>>
       /\ trace' = <<>>
       /\ touched' = {}
       /\ UNCHANGED <<type, nextId, entities, systems, entityQueries, queryEntities,
                      players, handlers, validators, actionQueue, bodies,
                      clients, roomInfo, started, updateCallbacks, matter, collisions, extVars>>
  ELSE enqueue(action, data) /\ UNCHANGED roomVars

\* The callback of the i-th pending timer runs: its delay has elapsed.
timeout(i) ==
  /\ i \in 1 .. Len(timers)
  /\ Len(actionQueue) < MaxQueue
  /\ actionQueue' = Append(actionQueue, timers[i])
  /\ timers' = SubSeq(timers, 1, i - 1) \o SubSeq(timers, i + 1, Len(timers))
  /\ lastOp' = [NoOp EXCEPT !.op = "timeout", !.inst = i]
  /\ lastErr' = "none"
  /\ flushed' = <<>>
  /\ trace' = <<>>
  /\ touched' = {}
  /\ UNCHANGED <<type, nextId, entities, systems, entityQueries, queryEntities,
                 players, handlers, validators, bodies,
                 clients, roomInfo, started, updateCallbacks, matter, collisions, extVars>>

\* The payloads the model passes to enqueue for an action type: the one the
\* game builds, one without the player field, and undefined.
Payloads(action) ==
  {Undefined} \cup
  (CASE action \in {MOVE_PLAYER, MOUSE_DIR} ->
          {[player |-> "s1", dir |-> Vec2(1, 0)], [dir |-> Vec2(1, 0)]}
     [] action = TOGGLE_ATTACK_MODE ->
          {[player |-> "s1", type |-> 1], [type |-> 1]}
     [] action \in {PORTAL_ATTACK, COMBAT_ATTACK} ->
          {[player |-> "s1", type |-> 1, mouseDir |-> Vec2(1, 0)],
           [player |-> "s1", type |-> 1]})

\* The action types the ActionsManager specification enqueues and registers.
QueueTypes == {MOVE_PLAYER, MOUSE_DIR}

ActNext ==
  \/ \E a \in QueueTypes : \E d \in Payloads(a) : enqueue(a, d) /\ UNCHANGED roomVars
  \/ \E a \in QueueTypes : register(a) /\ UNCHANGED roomVars
  \/ \E a \in QueueTypes : unregister(a) /\ UNCHANGED roomVars
  \/ flush /\ UNCHANGED roomVars

(***************************************************************************)
(* The systems' callbacks and the engine's tick.                           *)
(***************************************************************************)
\* Upper bound on the fixed ticks one Engine.update performs.
MaxTicks == 2

\* Upper bound on the queue length at which the room still receives a
\* GAME_ACTION message.
MaxPending == 2

\* Upper bound on the entity ids the room's game hands out: those of one
\* player, the level, and one projectile.
MaxIds == 6

ColorTagId == 198

PRE_FIXED_UPDATE == "PRE_FIXED_UPDATE"
POST_FIXED_UPDATE == "POST_FIXED_UPDATE"
PRE_UPDATE == "PRE_UPDATE"
POST_UPDATE == "POST_UPDATE"

\* An entry of the trace that is not a handler invocation.
Mark(w, kind, sid) ==
  IF ~Ok(w) THEN w
  ELSE [w EXCEPT !.trace = Append(@, [kind |-> kind, action |-> -1,
                                      data |-> Undefined, sid |-> sid])]

\* A createSystemUpdateData that passes the ids of the whole store.
systemEntitiesFullStore(w, s) == MapKeys(w.entities)

\* createSystemUpdateData(...).entities
systemEntities(w, s) == w.queryEntities[queryKey(s)]

\* The invocation of a callback of system s: the trace keeps the kind of
\* the callback, the system and the entity set it is passed.
Call(w, kind, s) ==
  IF ~Ok(w) THEN w
  ELSE [w EXCEPT !.trace = Append(@, [kind |-> kind, action |-> -1,
                                      data |-> systemEntities(w, s), sid |-> s])]

\* registry.destroy(id), called from inside a callback.
wDestroy(w, id) ==
  IF ~wHas(w, id) THEN Throw(w, "Error")
  ELSE LET ents == MapDelete(w.entities, id)
           w1 == [w EXCEPT !.entities = ents]
       IN  IF type = "SERVER"
           THEN LET r == deleteEntityFromEntityMaps(EntityOf(ents, id), entityQueries,
                                                    w.queryEntities)
                IN  [w1 EXCEPT !.queryEntities = r.qe, !.err = r.err]
           ELSE w1

TouchAll(w, S) == [w EXCEPT !.touched = @ \cup S]

Projectiles(w) ==
  {id \in MapKeys(w.entities) :
     hasComponent(MapGet(w.entities, id), ProjectileComponent)}

\* The COLLISION_START_INSTANT callback portalAttackAction puts on the
\* projectile's collider, for a collision with portal ground: it destroys
\* the projectile and then places the portal.
\* The callback after registry.destroy(projectile), for the player and the
\* portal type of its closure; the ray finds the portal ground.
newPortal(w, player, ptype) ==
  IF ~Ok(w) THEN w
  ELSE [wCreateWith(w, <<Component(TransformId, 1), Component(RigidbodyId, 1),
                         Component(RectangleColliderId, 1),
                         Component(RenderableId, 1), Component(SpriteTagId, 1)>>)
          EXCEPT !.players[player].portals = MapSet(@, toString(ptype), toString(w.nextId))]

placePortal(w, player, ptype) ==
  IF ~Ok(w) THEN w
  ELSE IF MapHas(w.players[player].portals, toString(ptype))
  THEN newPortal(wDestroy([w EXCEPT !.players[player].portals =
                                      MapDelete(@, toString(ptype))],
                          MapGet(w.players[player].portals, toString(ptype))),
                 player, ptype)
  ELSE newPortal(w, player, ptype)

\* The projectiles of the model are those of player s1 and portal type 0.
projectileCollision(w, projectile) == placePortal(wDestroy(w, projectile), "s1", 0)

\* PhysicsWorld.fixedUpdate.  hit: during this step a projectile starts to
\* collide with portal ground.  (The game creates no Constraint component,
\* so the constraint steps do nothing.)
\* Some entity of the system's query is not in the store, so that
\* registry.get(entity) raises.
Stale(w, s) == \E id \in systemEntities(w, s) : ~wHas(w, id)

\* deletion step
physicsDelete(w) ==
  [w EXCEPT !.bodies = @ \cap systemEntities(w, "physics")]

\* creation step
physicsCreate(w) ==
  IF Stale(w, "physics") THEN Throw(w, "Error")
  ELSE [w EXCEPT !.bodies = systemEntities(w, "physics")]

\* The collisionStart event of the update step.
physicsCollide(w, hit) ==
  IF ~Ok(w) \/ ~hit \/ Projectiles(w) \cap systemEntities(w, "physics") = {} THEN w
  ELSE projectileCollision(Mark(w, "collisionStart", "physics"),
                           CHOOSE id \in Projectiles(w) \cap systemEntities(w, "physics") : TRUE)

\* update step: Matter.Engine.update
physicsStep(w, hit) == physicsCollide(Mark(w, "step", "physics"), hit)

\* sync step
physicsSync(w) ==
  IF ~Ok(w) THEN w
  ELSE IF Stale(w, "physics") THEN Throw(w, "Error")
  ELSE TouchAll(w, {<<id, c>> : id \in systemEntities(w, "physics"),
                               c \in {RigidbodyId, TransformId}})

\* flushMatterCollisionEvents()
flushMatterCollisionEvents(w) == Mark(w, "collisionFlush", "physics")

physicsFixedUpdate(w, hit) ==
  flushMatterCollisionEvents(physicsSync(physicsStep(physicsCreate(physicsDelete(w)), hit)))

\* The players PlayerSystem.fixedUpdate does not skip.
ActivePlayers(w) ==
  {p \in Sessions : /\ clients[p] = "joined"
                    /\ wHas(w, w.players[p].entity)
                    /\ wHas(w, w.players[p].fistEntity)
                    /\ wHas(w, w.players[p].portalGunEntity)}

\* PlayerSystem.fixedUpdate
playerNeeds(w, p) ==
  {<<w.players[p].entity, c>> :
     c \in {RigidbodyId, TransformId, RectangleColliderId, SpriteTagId, PlayerComponentId}}
  \cup {<<w.players[p].fistEntity, TransformId>>,
        <<w.players[p].portalGunEntity, TransformId>>}

playerWrites(w, p) ==
  {<<w.players[p].entity, RigidbodyId>>, <<w.players[p].entity, SpriteTagId>>,
   <<w.players[p].entity, TransformId>>, <<w.players[p].fistEntity, TransformId>>,
   <<w.players[p].portalGunEntity, TransformId>>}

playerFixedUpdate(w) ==
  IF ~Ok(w) THEN w
  ELSE IF \E p \in ActivePlayers(w) :
            \E n \in playerNeeds(w, p) : ~wHasComponent(w, n[1], n[2])
  THEN Throw(w, "Error")
  ELSE [w EXCEPT !.players = [p \in Sessions |->
                                IF p \in ActivePlayers(w)
                                THEN [w.players[p] EXCEPT !.dir = Vec2(0, 0)]
                                ELSE w.players[p]],
                 !.touched = @ \cup UNION {playerWrites(w, p) : p \in ActivePlayers(w)}]

\* ProjectileSystem.update
projectileUpdate(w) ==
  IF ~Ok(w) THEN w
  ELSE IF \E id \in systemEntities(w, "projectile") :
            \/ ~wHasComponent(w, id, ProjectileComponentId)
            \/ ~wHasComponent(w, id, RigidbodyId)
  THEN Throw(w, "Error")
  ELSE TouchAll(w, {<<id, RigidbodyId>> : id \in systemEntities(w, "projectile")})

\* system.fixedUpdate?.(data)
systemFixedUpdate(w, s, hit) ==
  IF "fixedUpdate" \notin System(s).callbacks THEN w
  ELSE CASE s = "physics" -> physicsFixedUpdate(Call(w, "fixedUpdate", s), hit)
         [] s = "player" -> playerFixedUpdate(Call(w, "fixedUpdate", s))
         [] OTHER -> Call(w, "fixedUpdate", s)

\* system.update?.(data)
systemUpdate(w, s) ==
  IF "update" \notin System(s).callbacks THEN w
  ELSE CASE s = "projectile" -> projectileUpdate(Call(w, "update", s))
         [] OTHER -> Call(w, "update", s)

\* system.stateUpdate?.(data)
systemStateUpdate(w, s) ==
  IF "stateUpdate" \notin System(s).callbacks THEN w
  ELSE Call(w, "stateUpdate", s)

\* The loop of Registry.fixedUpdate over this.systems, from index i.
RECURSIVE registryFixedUpdateFrom(_, _, _)
registryFixedUpdateFrom(w, i, hit) ==
  IF ~Ok(w) \/ i > Len(systems) THEN w
  ELSE registryFixedUpdateFrom(systemFixedUpdate(w, systems[i], hit), i + 1, hit)

\* The same loop from the last system to the first.
RECURSIVE registryFixedUpdateDown(_, _, _)
registryFixedUpdateDown(w, i, hit) ==
  IF ~Ok(w) \/ i < 1 THEN w
  ELSE registryFixedUpdateDown(systemFixedUpdate(w, systems[i], hit), i - 1, hit)

registryFixedUpdateReversed(w, hit) == registryFixedUpdateDown(w, Len(systems), hit)

\* Registry.fixedUpdate(engine, dt)
registryFixedUpdate(w, hit) == registryFixedUpdateFrom(w, 1, hit)

\* The loop of Registry.update over this.systems, from index i.
RECURSIVE registryUpdateFrom(_, _)
registryUpdateFrom(w, i) ==
  IF ~Ok(w) \/ i > Len(systems) THEN w
  ELSE registryUpdateFrom(systemUpdate(w, systems[i]), i + 1)

\* Registry.update(engine, dt)
registryUpdate(w) == registryUpdateFrom(w, 1)

\* The loop of Registry.stateUpdate over this.systems, from index i.
RECURSIVE registryStateUpdateFrom(_, _)
registryStateUpdateFrom(w, i) ==
  IF ~Ok(w) \/ i > Len(systems) THEN w
  ELSE registryStateUpdateFrom(systemStateUpdate(w, systems[i]), i + 1)

\* Registry.stateUpdate(engine)
registryStateUpdate(w) == registryStateUpdateFrom(w, 1)

\* this.updateCallbacks.get(type)?.forEach(...)
runCallbacks(w, cbType) ==
  IF cbType \in updateCallbacks THEN Mark(w, cbType, "") ELSE w

\* A fixed update that flushes the actions after the systems have run.
engineFixedUpdateFlushLast(w, hit) ==
  IF ~started THEN w
  ELSE runCallbacks(
         Mark(flushWorld(Mark(registryFixedUpdate(
                                runCallbacks(Mark(w, "tick", ""), PRE_FIXED_UPDATE), hit),
                              "flush", "")),
              "flushed", ""),
         POST_FIXED_UPDATE)

\* A fixed update that flushes the actions between the fixedUpdate callbacks
\* of the first and of the second system.
engineFixedUpdateFlushBetween(w, hit) ==
  IF ~started THEN w
  ELSE runCallbacks(
         registryFixedUpdateFrom(
           Mark(flushWorld(Mark(IF systems = <<>>
                                THEN runCallbacks(Mark(w, "tick", ""), PRE_FIXED_UPDATE)
                                ELSE systemFixedUpdate(
                                       runCallbacks(Mark(w, "tick", ""), PRE_FIXED_UPDATE),
                                       systems[1], hit),
                                "flush", "")),
                "flushed", ""),
           2, hit),
         POST_FIXED_UPDATE)

\* Engine.fixedUpdate(dt)
engineFixedUpdate(w, hit) ==
  IF ~started THEN w
  ELSE runCallbacks(
         registryFixedUpdate(
           runCallbacks(Mark(flushWorld(Mark(Mark(w, "tick", ""), "flush", "")),
                             "flushed", ""),
                        PRE_FIXED_UPDATE),
           hit),
         POST_FIXED_UPDATE)

\* The while loop of Engine.update: k fixed updates.
RECURSIVE fixedUpdates(_, _, _)
fixedUpdates(w, k, hit) ==
  IF ~Ok(w) \/ k = 0 THEN w
  ELSE fixedUpdates(engineFixedUpdate(w, hit), k - 1, hit)

\* Engine.update(), when the accumulated time holds k fixed steps.
engineUpdate(w, k, hit) ==
  IF ~started THEN w
  ELSE runCallbacks(registryUpdate(runCallbacks(fixedUpdates(w, k, hit), PRE_UPDATE)),
                    POST_UPDATE)

(***************************************************************************)
(* The server room: its message schemas and handlers.                      *)
(***************************************************************************)
PlayerAttackMode == {0, 1}
PortalType == {0, 1}
CombatType == {0, 1}

\* RoomInfo.playersToStart
playersToStart == 1

\* z.object(...): the value is an object.
IsObject(v) == v # Undefined

\* A vec2Schema that does not bound the components.
vec2SchemaNoRange(v) ==
  /\ IsObject(v)
  /\ {"x", "y"} \subseteq DOMAIN v

vec2Schema(v) ==
  /\ IsObject(v)
  /\ {"x", "y"} \subseteq DOMAIN v
  /\ v.x >= -1 /\ v.x <= 1
  /\ v.y >= -1 /\ v.y <= 1

movePlayerSchema(d) == vec2Schema(d)

toggleAttackModeSchema(d) ==
  IsObject(d) /\ "type" \in DOMAIN d /\ d.type \in PlayerAttackMode

portalAttackSchema(d) ==
  /\ IsObject(d)
  /\ "type" \in DOMAIN d /\ d.type \in PortalType
  /\ "mouseDir" \in DOMAIN d /\ vec2Schema(d.mouseDir)

combatAttackSchema(d) ==
  /\ IsObject(d)
  /\ "type" \in DOMAIN d /\ d.type \in CombatType
  /\ "mouseDir" \in DOMAIN d /\ vec2Schema(d.mouseDir)

mouseDirSchema(d) ==
  IsObject(d) /\ "dir" \in DOMAIN d /\ vec2Schema(d.dir)

\* gameActionSchema: { action: nativeEnum(ActionType), data: any }
gameActionSchema(message) ==
  IsObject(message) /\ "action" \in DOMAIN message /\ message.action \in ActionType

\* What a room handler leaves: the action queue and the error it raised.
Dropped == [queue |-> actionQueue, err |-> "none"]

\* game.actions.enqueue(action, data) without delay, from a room handler.
Enqueued(action, data) ==
  [queue |-> Append(actionQueue, [action |-> action, data |-> data]), err |-> "none"]

handleMovePlayer(player, d) ==
  IF ~movePlayerSchema(d) THEN Dropped
  ELSE Enqueued(MOVE_PLAYER, [player |-> player, dir |-> Vec2(d.x, d.y)])

handleToggleAttackMode(player, d) ==
  IF ~toggleAttackModeSchema(d) THEN Dropped
  ELSE Enqueued(TOGGLE_ATTACK_MODE, [player |-> player, type |-> d.type])

handlePortalAttack(player, d) ==
  IF ~portalAttackSchema(d) THEN Dropped
  ELSE Enqueued(PORTAL_ATTACK, [player |-> player, type |-> d.type,
                                mouseDir |-> Vec2(d.mouseDir.x, d.mouseDir.y)])

handleCombatAttack(player, d) ==
  IF ~combatAttackSchema(d) THEN Dropped
  ELSE Enqueued(COMBAT_ATTACK, [player |-> player, type |-> d.type,
                                mouseDir |-> Vec2(d.mouseDir.x, d.mouseDir.y)])

handleMouseDir(player, d) ==
  IF ~mouseDirSchema(d) THEN Dropped
  ELSE Enqueued(MOUSE_DIR, [player |-> player, dir |-> Vec2(d.dir.x, d.dir.y)])

\* ActionHandler.handleAction(game, player, action, data)
handleAction(player, action, d) ==
  CASE action = MOVE_PLAYER -> handleMovePlayer(player, d)
    [] action = TOGGLE_ATTACK_MODE -> handleToggleAttackMode(player, d)
    [] action = PORTAL_ATTACK -> handlePortalAttack(player, d)
    [] action = COMBAT_ATTACK -> handleCombatAttack(player, d)
    [] action = MOUSE_DIR -> handleMouseDir(player, d)
    [] OTHER -> [queue |-> actionQueue, err |-> "Error"]

\* The payload of a parsed envelope: data is z.any(), so it may be absent.
DataOf(message) == IF "data" \in DOMAIN message THEN message.data ELSE Undefined

\* A GAME_ACTION message handler that does not look at the room.
onGameActionUngated(s, message) ==
  IF ~gameActionSchema(message) THEN Dropped
  ELSE handleAction(s, message.action, DataOf(message))

\* The room's GAME_ACTION message handler.
onGameAction(s, message) ==
  IF clients[s] # "joined" \/ ~roomInfo.started THEN Dropped
  ELSE IF ~gameActionSchema(message) THEN Dropped
  ELSE handleAction(s, message.action, DataOf(message))

\* The payloads the model sends for an action tag: one the schema accepts,
\* one with a component out of range, one with a subfield missing, and none.
MessageData(a) ==
  {Undefined} \cup
  (CASE a = MOVE_PLAYER -> {Vec2(1, 0), Vec2(2, 0), [x |-> 1]}
     [] a = TOGGLE_ATTACK_MODE -> {[type |-> 1], [type |-> 2], [other |-> 1]}
     [] a = PORTAL_ATTACK ->
          {[type |-> 0, mouseDir |-> Vec2(1, 0)], [type |-> 0, mouseDir |-> Vec2(0, -2)],
           [type |-> 0], [mouseDir |-> Vec2(1, 0)]}
     [] a = COMBAT_ATTACK ->
          {[type |-> 0, mouseDir |-> Vec2(1, 0)], [type |-> 0, mouseDir |-> Vec2(-2, 0)],
           [type |-> 0]}
     [] a = MOUSE_DIR ->
          {[dir |-> Vec2(0, 1)], [dir |-> Vec2(0, 2)], [dir |-> [y |-> 1]], [x |-> 0, y |-> 1]}
     [] OTHER -> {Vec2(1, 0)})

\* The tag 5 is not a member of ActionType.
Messages ==
  {Undefined, [data |-> Vec2(1, 0)]}
  \cup UNION {{[action |-> a, data |-> d] : d \in MessageData(a)} : a \in ActionType \cup {5}}

\* The PORTAL_ATTACK actions in the queue.
QueuedPortalAttacks ==
  Cardinality({i \in 1 .. Len(actionQueue) : actionQueue[i].action = PORTAL_ATTACK})

\* Room.updateStartable()
updateStartable(info, cl) ==
  IF info.started THEN info
  ELSE [info EXCEPT !.startable =
          Cardinality({p \in Sessions : cl[p] = "joined"}) >= playersToStart]

\* What every room or engine call that is not an update resets.
ResetHistory ==
  /\ trace' = <<>>
  /\ flushed' = <<>>
  /\ touched' = {}

\* Room.onJoin(client, options).  onAuth has admitted the client: the room
\* is joinable, which it stops being when the game starts.
onJoin(s) ==
  /\ clients[s] = "none"
  /\ ~roomInfo.started
  /\ players' = [players EXCEPT
                   ![s] = Player(s, \A p \in Sessions : clients[p] # "joined")]
  /\ clients' = [clients EXCEPT ![s] = "joined"]
  /\ roomInfo' = updateStartable([roomInfo EXCEPT !.order = Append(@, s)], clients')
  /\ lastOp' = [NoOp EXCEPT !.op = "onJoin", !.sid = s]
  /\ lastErr' = "none"
  /\ ResetHistory
  /\ UNCHANGED <<type, nextId, entities, systems, entityQueries, queryEntities,
                 handlers, validators, actionQueue, bodies, started, updateCallbacks,
                 timers, matter, collisions, extVars>>

\* Room.onLeave(client, consented)
onLeave(s) ==
  /\ clients[s] = "joined"
  /\ clients' = [clients EXCEPT ![s] = "left"]
  /\ roomInfo' = updateStartable(
                    [roomInfo EXCEPT !.order = SelectSeq(@, LAMBDA q : q # s)], clients')
  /\ lastOp' = [NoOp EXCEPT !.op = "onLeave", !.sid = s]
  /\ lastErr' = "none"
  /\ ResetHistory
  /\ UNCHANGED <<type, nextId, entities, systems, entityQueries, queryEntities,
                 players, handlers, validators, actionQueue, bodies, started,
                 updateCallbacks, timers, matter, collisions, extVars>>

\* Registry.addSystem(s) on a sequence of systems none of which is s.
withSystem(syss, s) ==
  IF ~doesSystemTypeMatch(s, type) THEN syss ELSE SortByPriority(Append(syss, s))

\* Game.createPlayer(player, ...): the player, fist and portal gun entities.
setPlayerEntities(w, p, n) ==
  [w EXCEPT !.players[p].entity = toString(n),
            !.players[p].fistEntity = toString(n + 1),
            !.players[p].portalGunEntity = toString(n + 2)]

createPlayer(w, p) ==
  setPlayerEntities(
    wCreateWith(
      wCreateWith(
        wCreateWith(w, <<Component(RenderableId, 1), Component(ColorTagId, 1),
                         Component(PlayerComponentId, 1), Component(SpriteTagId, 1),
                         Component(TransformId, 1), Component(RectangleColliderId, 1),
                         Component(RigidbodyId, 1)>>),
        <<Component(RenderableId, 1), Component(ColorTagId, 1),
          Component(RigidbodyId, 1), Component(SpriteTagId, 1),
          Component(TransformId, 1), Component(RectangleColliderId, 1)>>),
      <<Component(RenderableId, 1), Component(ColorTagId, 1),
        Component(SpriteTagId, 1), Component(TransformId, 1)>>),
    p, w.nextId)

\* The loop of handleStartGame over state.players.
RECURSIVE createPlayers(_, _)
createPlayers(w, order) ==
  IF order = <<>> THEN w
  ELSE createPlayers(createPlayer(w, Head(order)), Tail(order))

\* Game.createGround(x, y, width, height): PortalGroundComponent has the
\* component id of SpriteTag and is added after it.
createGround(w) ==
  wCreateWith(w, <<Component(TransformId, 1), Component(RenderableId, 1),
                   Component(ColorTagId, 1), Component(SpriteTagId, 1),
                   Component(SpriteTagId, 2), Component(RigidbodyId, 1),
                   Component(RectangleColliderId, 1)>>)

\* Game.createSpawn(x, y, width, height)
createSpawn(w) ==
  wCreateWith(w, <<Component(TransformId, 1), Component(RenderableId, 1),
                   Component(ColorTagId, 1), Component(SpriteTagId, 1)>>)

\* Game.createLevel() for a level of one ground block and one spawn.
createLevel(w) == createSpawn(createGround(w))

\* Room.handleStartGame(client), with Room.setStarted(true) and Game.start().
startGame(w, go, syss) ==
  /\ roomInfo' = [roomInfo EXCEPT !.started = go]
  /\ handlers' = IF go THEN handlers \cup ActionType ELSE handlers
  /\ validators' = IF go THEN validators \cup ActionType ELSE validators
  /\ systems' = syss
  /\ entityQueries' = getAllEntityQueries(syss)
  /\ started' = (started \/ go)
  /\ nextId' = w.nextId
  /\ entities' = w.entities
  /\ players' = w.players
  /\ queryEntities' =
       IF type = "SERVER" THEN updateEntityMaps(syss, w.entities) ELSE queryEntities

\* A handleStartGame that does not look at isHost.
handleStartGameAnyone(s) ==
  /\ lastOp' = [NoOp EXCEPT !.op = "handleStartGame", !.sid = s]
  /\ lastErr' = "none"
  /\ ResetHistory
  /\ IF roomInfo.started \/ clients[s] # "joined"
     THEN UNCHANGED <<nextId, entities, systems, entityQueries, queryEntities, players,
                      handlers, validators, roomInfo, started>>
     ELSE startGame(createLevel(createPlayers(World, roomInfo.order)),
                    roomInfo.startable,
                    IF roomInfo.startable
                    THEN withSystem(withSystem(systems, "player"), "projectile")
                    ELSE systems)
  /\ UNCHANGED <<type, actionQueue, bodies, clients, updateCallbacks, timers, matter, collisions, extVars>>

\* Room.handleStartGame(client): getPlayer(client.sessionId) is undefined for
\* a client that is not in the room.
handleStartGameFrom(s) ==
  /\ lastOp' = [NoOp EXCEPT !.op = "handleStartGame", !.sid = s]
  /\ lastErr' = "none"
  /\ ResetHistory
  /\ IF roomInfo.started \/ clients[s] # "joined" \/ ~players[s].isHost
     THEN UNCHANGED <<nextId, entities, systems, entityQueries, queryEntities, players,
                      handlers, validators, roomInfo, started>>
     ELSE startGame(createLevel(createPlayers(World, roomInfo.order)),
                    roomInfo.startable,
                    IF roomInfo.startable
                    THEN withSystem(withSystem(systems, "player"), "projectile")
                    ELSE systems)
  /\ UNCHANGED <<type, actionQueue, bodies, clients, updateCallbacks, timers, matter, collisions, extVars>>

\* A START_GAME message from a client that is in the room.
handleStartGame(s) ==
  /\ clients[s] = "joined"
  /\ handleStartGameFrom(s)

\* A GAME_ACTION message from client s.
setQueue(r) ==
  /\ actionQueue' = r.queue
  /\ lastErr' = r.err

gameActionFrom(s, message) ==
  /\ Len(actionQueue) < MaxPending
  /\ (gameActionSchema(message) /\ message.action = PORTAL_ATTACK)
       => nextId + QueuedPortalAttacks < MaxIds
  /\ setQueue(onGameAction(s, message))
  /\ lastOp' = [NoOp EXCEPT !.op = "gameAction", !.sid = s, !.msg = message]
  /\ ResetHistory
  /\ UNCHANGED <<type, nextId, entities, systems, entityQueries, queryEntities,
                 players, handlers, validators, bodies, roomVars>>

\* A GAME_ACTION message from a client that is in the room.
gameAction(s, message) ==
  /\ clients[s] = "joined"
  /\ gameActionFrom(s, message)

\* Engine.on(type, callback)
on(cbType) ==
  /\ updateCallbacks' = updateCallbacks \cup {cbType}
  /\ lastOp' = [NoOp EXCEPT !.op = "on"]
  /\ lastErr' = "none"
  /\ ResetHistory
  /\ UNCHANGED <<type, nextId, entities, systems, entityQueries, queryEntities,
                 players, handlers, validators, actionQueue, bodies, clients,
                 roomInfo, started, timers, matter, collisions, extVars>>

\* The simulation interval's call of Game.update(), hence Engine.update():
\* the elapsed time holds k fixed steps.
update(k, hit) ==
  /\ SetWorld(engineUpdate(World, k, hit))
  /\ flushed' = IF started /\ k > 0 THEN actionQueue ELSE <<>>
  /\ lastOp' = [NoOp EXCEPT !.op = "update", !.inst = k, !.pre = started]
  /\ UNCHANGED <<type, systems, entityQueries, handlers, validators, roomVars>>

RoomNext ==
  \/ \E s \in Solo : onJoin(s)
  \/ \E s \in Solo : onLeave(s)
  \/ \E s \in Solo : handleStartGame(s)
  \/ \E s \in Solo : \E m \in Messages : gameAction(s, m)
  \/ \E t \in {PRE_FIXED_UPDATE, POST_FIXED_UPDATE} : on(t)
  \/ \E k \in 0 .. MaxTicks : \E hit \in BOOLEAN : update(k, hit)

(***************************************************************************)
(* Initial states.  RegInit: a Registry constructed on an empty entity     *)
(* map.  EngineInit: the registry of a constructed Engine, whose           *)
(* constructor registers the PhysicsWorld.                                 *)
(***************************************************************************)
\* PhysicsWorld before its first fixedUpdate: this.bodies, this.matterBodies,
\* the bodies of engine.world, the fields of each body, and the number of
\* the next body.
NoMatter ==
  [bodies |-> {}, matterBodies |-> {}, world |-> {}, body |-> {}, nextBody |-> 1]

\* PhysicsWorld.constraints is an empty Map, the Matter world holds no
\* constraint; removed: the calls of deleteConstraint of the last fixedUpdate.
NoConstraints == [map |-> {}, world |-> {}, next |-> 1, removed |-> <<>>]

\* No server state is mirrored: state.entities of the server is empty and no
\* listener of a client registry has run.  nextId is Entity.nextId of the
\* server's process, issued the ids its registries' create() has returned,
\* made the ids the client registry's create() has returned.
NoReplica ==
  [store |-> {}, sent |-> {}, nextId |-> 0, known |-> {}, gone |-> {}, issued |-> {},
   made |-> {}]

\* No run has been set up.
NoRuns == [counter |-> 0, script |-> <<>>, tick |-> <<>>, world |-> <<>>]

\* Engine.options.fixedUpdateRate
fixedUpdateRate == 60

\* Milliseconds in a second.
Second == 1000

\* No player body is followed.
NoJump == [phase |-> "none"]

\* The fields of a new Engine that update() works on, and the clock
\* Date.now() in milliseconds.  lastUpdateTime is in milliseconds divided by
\* fixedUpdateRate and timeScale is in halves, so that the
\* updateTimeAccumulator and every delta are whole numbers, in seconds
\* divided by 2 * Second * fixedUpdateRate.  ticks: the iterations of the
\* while loop of the last update(); returned: that update() returned.
NoLoop ==
  [now |-> 0, lastUpdateTime |-> 0, updateTimeAccumulator |-> 0, timeScale |-> 2,
   ticks |-> 0, returned |-> TRUE]

\* PhysicsWorld.collisionEvents is an empty Map and no collider has a
\* callback.
NoCollisions == [events |-> <<>>, callbacks |-> {}, touching |-> {}]

\* A new ActionsManager; the game's Player objects exist, without entities.
ActInit ==
  /\ players = [p \in Sessions |-> Player(p, FALSE)]
  /\ handlers = {}
  /\ validators = {}
  /\ actionQueue = <<>>
  /\ touched = {}
  /\ flushed = <<>>
  /\ trace = <<>>
  /\ bodies = {}
  /\ clients = [p \in Sessions |-> "none"]
  /\ roomInfo = [startable |-> FALSE, started |-> FALSE, order |-> <<>>]
  /\ started = FALSE
  /\ updateCallbacks = {}
  /\ timers = <<>>
  /\ matter = NoMatter
  /\ collisions = NoCollisions
  /\ constraints = NoConstraints
  /\ replica = NoReplica
  /\ runs = NoRuns
  /\ loop = NoLoop
  /\ jump = NoJump

RegInit ==
  /\ ActInit
  /\ type = "SERVER"
  /\ nextId = 0
  /\ entities = {}
  /\ systems = <<>>
  /\ entityQueries = <<>>
  /\ queryEntities = <<>>
  /\ lastOp = NoOp
  /\ lastErr = "none"

EngineInit ==
  /\ ActInit
  /\ type \in {"SERVER", "CLIENT"}
  /\ nextId = 0
  /\ entities = {}
  /\ systems = <<"physics">>
  /\ entityQueries = getAllEntityQueries(<<"physics">>)
  /\ queryEntities = updateEntityMaps(<<"physics">>, {})
  /\ lastOp = NoOp
  /\ lastErr = "none"

(***************************************************************************)
(* Registry operations.                                                    *)
(***************************************************************************)
create ==
  /\ nextId < MaxEntities
  /\ LET id == toString(nextId)
         ents == MapSet(entities, id, {})
     IN  /\ nextId' = nextId + 1
         /\ entities' = ents
         /\ queryEntities' =
              IF type = "SERVER"
              THEN updateEntityMapsForEntity(EntityOf(ents, id), entityQueries, queryEntities)
              ELSE queryEntities
         /\ lastOp' = [NoOp EXCEPT !.op = "create", !.id = id, !.pre = MapHas(entities, id)]
         /\ lastErr' = "none"
  /\ UNCHANGED <<type, systems, entityQueries>>

destroy(id) ==
  /\ lastOp' = [NoOp EXCEPT !.op = "destroy", !.id = id, !.pre = MapHas(entities, id)]
  /\ IF ~MapHas(entities, id)
     THEN /\ lastErr' = "Error"
          /\ UNCHANGED <<entities, queryEntities>>
     ELSE LET ents == MapDelete(entities, id)
              r == deleteEntityFromEntityMaps(EntityOf(ents, id), entityQueries, queryEntities)
          IN  /\ entities' = ents
              /\ IF type = "SERVER"
                 THEN /\ queryEntities' = r.qe
                      /\ lastErr' = r.err
                 ELSE /\ queryEntities' = queryEntities
                      /\ lastErr' = "none"
  /\ UNCHANGED <<type, nextId, systems, entityQueries>>

add(id, component) ==
  /\ lastOp' = [NoOp EXCEPT !.op = "add", !.id = id, !.ctype = component.componentId,
                            !.inst = component.inst,
                            !.old = InstOf(entities, id, component.componentId),
                            !.pre = MapHas(entities, id)]
  /\ IF ~MapHas(entities, id)
     THEN /\ lastErr' = "Error"
                  /\ UNCHANGED <<entities, queryEntities>>
     ELSE LET ents == MapSet(entities, id, addComponent(MapGet(entities, id), component))
          IN  /\ entities' = ents
              /\ queryEntities' =
                   IF type = "SERVER"
                   THEN updateEntityMapsForEntity(EntityOf(ents, id), entityQueries, queryEntities)
                   ELSE queryEntities
              /\ lastErr' = "none"
  /\ UNCHANGED <<type, nextId, systems, entityQueries>>

remove(id, ctype) ==
  /\ lastOp' = [NoOp EXCEPT !.op = "remove", !.id = id, !.ctype = ctype,
                            !.old = InstOf(entities, id, ctype),
                            !.pre = MapHas(entities, id)]
  /\ IF ~MapHas(entities, id)
     THEN /\ lastErr' = "Error"
          /\ UNCHANGED <<entities, queryEntities>>
     ELSE LET ents == MapSet(entities, id, removeComponent(MapGet(entities, id), ClassOf(ctype)))
          IN  /\ entities' = ents
              /\ queryEntities' =
                   IF type = "SERVER"
                   THEN updateEntityMapsForEntity(EntityOf(ents, id), entityQueries, queryEntities)
                   ELSE queryEntities
              /\ lastErr' = "none"
  /\ UNCHANGED <<type, nextId, systems, entityQueries>>

\* get(id) when the optional argument is absent (<<>>), get(id, component)
\* when it is given (<<ctype>>).  It assigns nothing: [err, ret].
get(id, component) ==
  IF ~MapHas(entities, id)
  THEN [err |-> "Error", ret |-> Undefined]
  ELSE IF component = <<>>
  THEN [err |-> "none", ret |-> EntityOf(entities, id)]
  ELSE getComponent(MapGet(entities, id), ClassOf(component[1]))

\* An includes that finds nothing.
includesNothing(syss, s) == FALSE

\* this.systems.includes(system)
includes(syss, s) == s \in SeqRange(syss)

addSystem(s) ==
  /\ lastOp' = [NoOp EXCEPT !.op = "addSystem", !.sid = s]
  /\ IF ~doesSystemTypeMatch(s, type)
     THEN /\ lastErr' = "none"
          /\ UNCHANGED <<systems, entityQueries, queryEntities>>
     ELSE IF includes(systems, s)
     THEN /\ lastErr' = "Error"
          /\ UNCHANGED <<systems, entityQueries, queryEntities>>
     ELSE LET syss == SortByPriority(Append(systems, s))
          IN  /\ systems' = syss
              /\ entityQueries' = getAllEntityQueries(syss)
              /\ queryEntities' = updateEntityMaps(syss, entities)
              /\ lastErr' = "none"
  /\ UNCHANGED <<type, nextId, entities>>

removeSystem(s) ==
  /\ lastOp' = [NoOp EXCEPT !.op = "removeSystem", !.sid = s]
  /\ IF s \notin SeqRange(systems)
     THEN /\ lastErr' = "Error"
          /\ UNCHANGED <<systems, entityQueries, queryEntities>>
     ELSE LET index == CHOOSE i \in 1 .. Len(systems) : systems[i] = s
              syss == SortByPriority(SubSeq(systems, 1, index - 1) \o
                                     SubSeq(systems, index + 1, Len(systems)))
          IN  /\ systems' = syss
              /\ entityQueries' = getAllEntityQueries(syss)
              /\ queryEntities' = updateEntityMaps(syss, entities)
              /\ lastErr' = "none"
  /\ UNCHANGED <<type, nextId, entities>>

\* Registry.hasSystem(system)
hasSystem(s) == includes(systems, s)

\* Every Registry operation; components are added as instance 1.
RegNext ==
  \/ create /\ UNCHANGED <<actVars, roomVars>>
  \/ \E id \in Ids : destroy(id) /\ UNCHANGED <<actVars, roomVars>>
  \/ \E id \in Ids, c \in ComponentIds : add(id, Component(c, 1)) /\ UNCHANGED <<actVars, roomVars>>
  \/ \E id \in Ids, c \in ComponentIds : remove(id, c) /\ UNCHANGED <<actVars, roomVars>>
  \/ \E s \in SystemIds : addSystem(s) /\ UNCHANGED <<actVars, roomVars>>
  \/ \E s \in SystemIds : removeSystem(s) /\ UNCHANGED <<actVars, roomVars>>

\* The entity store of a constructed engine: distinct component instances.
StoreNext ==
  \/ create /\ UNCHANGED <<actVars, roomVars>>
  \/ \E id \in Ids : destroy(id) /\ UNCHANGED <<actVars, roomVars>>
  \/ \E id \in Ids, c \in ComponentIds, i \in Insts : add(id, Component(c, i)) /\ UNCHANGED <<actVars, roomVars>>
  \/ \E id \in Ids, c \in ComponentIds : remove(id, c) /\ UNCHANGED <<actVars, roomVars>>

\* The systems the system-list specification registers and removes.
SysIds == {"physics", "player", "mouse", "server", "sync"}

\* A call of Registry.update(engine, dt).
registryUpdateCall ==
  /\ SetWorld(registryUpdate(World))
  /\ flushed' = <<>>
  /\ lastOp' = [NoOp EXCEPT !.op = "update"]
  /\ UNCHANGED <<type, systems, entityQueries, handlers, validators, roomVars>>

\* A call of Registry.fixedUpdate(engine, dt).  No entity of this
\* specification carries a collision callback.
registryFixedUpdateCall ==
  /\ SetWorld(registryFixedUpdate(World, FALSE))
  /\ flushed' = <<>>
  /\ lastOp' = [NoOp EXCEPT !.op = "fixedUpdate"]
  /\ UNCHANGED <<type, systems, entityQueries, handlers, validators, roomVars>>

\* A call of Registry.stateUpdate(engine).
registryStateUpdateCall ==
  /\ SetWorld(registryStateUpdate(World))
  /\ flushed' = <<>>
  /\ lastOp' = [NoOp EXCEPT !.op = "stateUpdate"]
  /\ UNCHANGED <<type, systems, entityQueries, handlers, validators, roomVars>>

\* What a store or system-list call leaves of the state outside the
\* registry: the record of the last run of the systems is reset.
SysOther ==
  /\ ResetHistory
  /\ UNCHANGED <<players, handlers, validators, actionQueue, bodies, roomVars>>

\* Upper bound on the number of component classes in a query.
MaxQuery == 2

\* Component classes of the engine and the game.
Classes == {Transform, Rigidbody, ProjectileComponent, SpriteTag, PortalGroundComponent}

\* new Set([...]) of at most n classes: sequences without repetition.
RECURSIVE QueriesUpTo(_)
QueriesUpTo(n) ==
  IF n = 0 THEN {<<>>}
  ELSE QueriesUpTo(n - 1) \cup
       {Append(q, c) : q \in {r \in QueriesUpTo(n - 1) : Len(r) = n - 1},
                       c \in Classes}

Queries == {q \in QueriesUpTo(MaxQuery) : \A i, j \in 1 .. Len(q) : i # j => q[i] # q[j]}

\* A call of Registry.getEntityQueryKey(query).  lastOp keeps this call
\* (b, keyB) and the call before it (a, keyA).
getEntityQueryKeyCall(query) ==
  /\ lastOp' = [NoOp EXCEPT
                  !.op = "getEntityQueryKey",
                  !.msg = [a |-> IF lastOp.op = "getEntityQueryKey"
                                 THEN lastOp.msg.b ELSE query,
                           keyA |-> IF lastOp.op = "getEntityQueryKey"
                                    THEN lastOp.msg.keyB ELSE getEntityQueryKey(query),
                           b |-> query,
                           keyB |-> getEntityQueryKey(query)]]
  /\ lastErr' = "none"
  /\ UNCHANGED <<type, nextId, entities, systems, entityQueries, queryEntities>>
  /\ SysOther

\* The query keys and the result sets of the registered systems.
KeyNext ==
  \/ \E q \in Queries : getEntityQueryKeyCall(q)
  \/ \E s \in SysIds : addSystem(s) /\ SysOther
  \/ \E s \in SysIds : removeSystem(s) /\ SysOther

\* The system list of a registry of either type, with the store's
\* operations and the three entry points that run the systems.
SysNext ==
  \/ create /\ SysOther
  \/ \E id \in Ids : destroy(id) /\ SysOther
  \/ \E id \in Ids, c \in {TransformId, RigidbodyId} :
       add(id, Component(c, 1)) /\ SysOther
  \/ \E s \in SysIds : addSystem(s) /\ SysOther
  \/ \E s \in SysIds : removeSystem(s) /\ SysOther
  \/ registryUpdateCall
  \/ registryFixedUpdateCall
  \/ registryStateUpdateCall

\* A Registry of either type constructed on an empty entity map.
SystemsInit ==
  /\ ActInit
  /\ type \in {"SERVER", "CLIENT"}
  /\ nextId = 0
  /\ entities = {}
  /\ systems = <<>>
  /\ entityQueries = <<>>
  /\ queryEntities = <<>>
  /\ lastOp = NoOp
  /\ lastErr = "none"

SpecSystems == SystemsInit /\ [][SysNext]_vars

SpecQueryKey == SystemsInit /\ [][KeyNext]_vars

\* The ActionsManager with delayed enqueues, for one action type.
DelayNext ==
  \/ \E d \in Payloads(MOVE_PLAYER) : \E delay \in Delays :
       enqueueDelay(MOVE_PLAYER, d, delay)
  \/ \E i \in 1 .. MaxTimers : timeout(i)
  \/ register(MOVE_PLAYER) /\ UNCHANGED roomVars
  \/ flush /\ UNCHANGED roomVars

ActionsInit == EngineInit /\ type = "SERVER"

SpecDelay == ActionsInit /\ [][DelayNext]_vars

SpecActions == ActionsInit /\ [][ActNext]_vars

RoomInit == EngineInit /\ type = "SERVER"

SpecEngine == RoomInit /\ [][RoomNext]_vars

SpecRegistry == RegInit /\ [][RegNext]_vars

SpecStore == EngineInit /\ [][StoreNext]_vars

Spec == SpecRegistry

(***************************************************************************)
(* Properties of the Registry.                                             *)
(***************************************************************************)
\* The ids that are in the store and carry every component type of query.
Matching(query) ==
  {id \in MapKeys(entities) :
     \A i \in 1 .. Len(query) :
       \E p \in MapGet(entities, id) : p[2].componentId = query[i].COMPONENT_ID}

\* C1: on a server registry, for every query Q of a registered system, the
\* result set of Q is exactly the set of ids in the store that carry every
\* component type Q requires; no result set holds an id that is not in the
\* store.
C1_QueryIndexConsistent ==
  type = "SERVER" =>
    /\ \A i \in 1 .. Len(systems) :
         /\ queryKey(systems[i]) \in DOMAIN queryEntities
         /\ queryEntities[queryKey(systems[i])] = Matching(System(systems[i]).query)
    /\ \A k \in DOMAIN queryEntities : queryEntities[k] \subseteq MapKeys(entities)

\* C2: on a server registry with at least one registered system, destroy(id)
\* of an id in the store raises no error, and afterwards the id is neither in
\* the store nor in any query result set.
C2_DestroyCompletes ==
  (type = "SERVER" /\ Len(systems) >= 1 /\ lastOp.op = "destroy" /\ lastOp.pre) =>
    /\ lastErr = "none"
    /\ ~MapHas(entities, lastOp.id)
    /\ \A k \in DOMAIN queryEntities : lastOp.id \notin queryEntities[k]

\* C9: every entity holds at most one component per component type id, and
\* after add(id, c) a get(id, type of c) returns c, not an earlier instance.
C9_AddReplaces ==
  /\ \A id \in MapKeys(entities) : \A c \in ComponentIds :
       Cardinality({p \in MapGet(entities, id) : p[2].componentId = c}) <= 1
  /\ (lastOp.op = "add" /\ lastOp.pre) =>
       /\ lastErr = "none"
       /\ get(lastOp.id, <<lastOp.ctype>>) =
            [err |-> "none", ret |-> Component(lastOp.ctype, lastOp.inst)]

\* An add has replaced an instance of the same type by another instance.
C9_Witness ==
  /\ lastOp.op = "add" /\ lastOp.pre
  /\ lastOp.old # 0 /\ lastOp.old # lastOp.inst
  /\ get(lastOp.id, <<lastOp.ctype>>).ret.inst = lastOp.inst

\* C10: destroy, add, remove and get with an id that is not in the store,
\* and get(id, componentType) for a component the entity lacks, raise an
\* error; the failed call leaves the store and every result set unchanged.
C10_ErrorState ==
  /\ (lastOp.op \in {"destroy", "add", "remove"} /\ ~lastOp.pre) => lastErr = "Error"
  /\ \A id \in Ids :
       /\ ~MapHas(entities, id) =>
            /\ get(id, <<>>).err = "Error"
            /\ \A c \in ComponentIds : get(id, <<c>>).err = "Error"
       /\ MapHas(entities, id) =>
            \A c \in ComponentIds :
              (\A p \in MapGet(entities, id) : p[2].componentId # c) =>
                get(id, <<c>>).err = "Error"

C10_ErrorStep ==
  (lastOp'.op \in {"destroy", "add", "remove"} /\ ~lastOp'.pre) =>
    UNCHANGED <<entities, queryEntities, systems, entityQueries, nextId>>

C10_UnknownIdRaises == []C10_ErrorState /\ [][C10_ErrorStep]_vars

\* A call on an id that is not in the store has failed while the store held
\* an entity with a component, and a get for a missing component fails.
C10_Witness ==
  /\ lastOp.op \in {"destroy", "add", "remove"} /\ ~lastOp.pre /\ lastErr = "Error"
  /\ \E id \in MapKeys(entities) :
       /\ MapGet(entities, id) # {}
       /\ \E c \in ComponentIds : get(id, <<c>>).err = "Error"

(***************************************************************************)
(* Claims about the action queue.                                          *)
(***************************************************************************)
\* The verdict of fire on a queued action, from the registrations alone.
Handled(a) == a.action \in handlers /\ a.action \in validators
Accepted(a) == Handled(a) /\ validator(a.action, a.data) = "true"
Throws(a) == Handled(a) /\ validator(a.action, a.data) = "throw"

AfterFlush == lastOp.op = "flush"

\* The handler invocations of the last flush, in order, as queue entries.
Invoked == [i \in 1 .. Len(trace) |-> [action |-> trace[i].action, data |-> trace[i].data]]

\* The part of the flushed queue the loop reached: up to the first entry
\* whose validator raised.
Reached ==
  LET T == {i \in 1 .. Len(flushed) : Throws(flushed[i])}
  IN  IF T = {} THEN flushed
      ELSE SubSeq(flushed, 1, (CHOOSE i \in T : \A j \in T : i <= j) - 1)

\* C3: when N accepted actions were enqueued without delay before one flush,
\* the flush invokes exactly N handlers in enqueue order and leaves the
\* queue empty.
C3_FlushState ==
  (AfterFlush /\ \A i \in 1 .. Len(flushed) : Accepted(flushed[i]))
    => /\ Len(trace) = Len(flushed)
       /\ Invoked = flushed
       /\ actionQueue = <<>>
       /\ lastErr = "none"

\* C3: a flush that immediately follows such a flush invokes zero handlers.
C3_SecondFlush ==
  (AfterFlush /\ (\A i \in 1 .. Len(flushed) : Accepted(flushed[i]))
     /\ lastOp'.op = "flush" /\ flush)
    => trace' = <<>> /\ actionQueue' = <<>>

\* C3: N actions enqueued before one flush are dispatched to N handlers in
\* FIFO order, the queue is empty afterwards, and the next flush invokes no
\* handler.
C3_FlushFifo == []C3_FlushState /\ [][C3_SecondFlush]_vars

C3_Witness ==
  /\ AfterFlush
  /\ Len(flushed) = MaxQueue
  /\ \A i \in 1 .. Len(flushed) : Accepted(flushed[i])
  /\ flushed[1].action # flushed[2].action
  /\ Len(trace) = MaxQueue

\* C4: a flush invokes the handler of a dispatched action if and only if the
\* registered validator returns true for its payload: the invocations are
\* exactly the accepted entries the loop reached, each once, in order.
C4_ValidatorGates ==
  AfterFlush => Invoked = SelectSeq(Reached, Accepted)

C4_Witness ==
  /\ AfterFlush
  /\ \E i, j \in 1 .. Len(flushed) :
        /\ Accepted(flushed[i])
        /\ Handled(flushed[j]) /\ validator(flushed[j].action, flushed[j].data) = "false"
  /\ Len(trace) >= 1

\* C7: a flush of a queue that holds an action whose type has no handler
\* raises no error, invokes no handler for that action, dispatches the other
\* actions in FIFO order and leaves the queue empty.
C7_UnhandledSkipped ==
  (AfterFlush /\ (\E i \in 1 .. Len(flushed) : flushed[i].action \notin handlers)
     /\ \A i \in 1 .. Len(flushed) : ~Throws(flushed[i]))
    => /\ lastErr = "none"
       /\ \A k \in 1 .. Len(trace) : trace[k].action \in handlers
       /\ Invoked = SelectSeq(flushed, Accepted)
       /\ actionQueue = <<>>

C7_Witness ==
  /\ AfterFlush
  /\ Len(flushed) = MaxQueue
  /\ flushed[1].action \notin handlers
  /\ Accepted(flushed[2])
  /\ flushed[3].action \notin handlers
  /\ Len(trace) = 1
  /\ actionQueue = <<>>

(***************************************************************************)
(* Claims about the fixed tick and the room's message handler.             *)
(***************************************************************************)
AfterUpdate == lastOp.op = "update"

\* The positions of the trace with an entry of this kind.
At(kind) == {i \in 1 .. Len(trace) : trace[i].kind = kind}

\* Positions i <= j of the trace lie in the same fixed tick.
SameTick(i, j) == i <= j /\ \A m \in (i + 1) .. j : trace[m].kind # "tick"

\* The flush of the tick of position j has returned before position j.
FlushedBefore(j) == \E i \in At("flushed") : i < j /\ SameTick(i, j)

\* C5: in every fixed tick of a started engine the action queue is flushed
\* exactly once, first of all: the flush has returned before the
\* PRE_FIXED_UPDATE callbacks and before any system's fixedUpdate of that
\* tick, its handlers run inside it, and nothing but a fixed tick flushes.
C5_FlushOncePerTick ==
  /\ AfterUpdate =>
       /\ \A i \in At("tick") : i < Len(trace) /\ trace[i + 1].kind = "flush"
       /\ \A i \in At("flush") : i > 1 /\ trace[i - 1].kind = "tick"
       /\ \A j \in At(PRE_FIXED_UPDATE) \cup At("fixedUpdate") : FlushedBefore(j)
       /\ \A j \in At("handler") :
            /\ \E i \in At("flush") : i < j /\ SameTick(i, j)
            /\ ~FlushedBefore(j)
       /\ (lastOp.pre /\ lastErr = "none") => Cardinality(At("flush")) = lastOp.inst
       /\ ~lastOp.pre => (trace = <<>> /\ flushed = <<>>)
  /\ ~AfterUpdate => trace = <<>>

C5_Witness ==
  /\ AfterUpdate
  /\ lastOp.inst = MaxTicks
  /\ lastErr = "none"
  /\ PRE_FIXED_UPDATE \in updateCallbacks
  /\ Len(flushed) = MaxPending
  /\ Cardinality(At("handler")) = MaxPending
  /\ Cardinality(At("flush")) = MaxTicks
  /\ At("fixedUpdate") # {}

\* C6 as stated: within one fixed tick no gameplay system's fixedUpdate runs
\* after the physics solver step.
C6_GameplayBeforePhysics ==
  AfterUpdate =>
    \A i \in At("step") : \A j \in At("fixedUpdate") :
      (i < j /\ SameTick(i, j)) => trace[j].sid = "physics"

\* C6: within one fixed tick the action flush returns first; then the
\* systems' fixedUpdate callbacks run in descending priority; the physics
\* world (priority 0) performs its solver step and then flushes the queued
\* collision events inside its own fixedUpdate; the player system (priority
\* -1) runs its fixedUpdate after the solver step; the projectile system has
\* no fixedUpdate.
C6_TickOrder ==
  AfterUpdate =>
    /\ \A j \in At("fixedUpdate") : FlushedBefore(j)
    /\ \A i, j \in At("fixedUpdate") :
         (i < j /\ SameTick(i, j))
           => System(trace[i].sid).priority >= System(trace[j].sid).priority
    /\ \A j \in At("step") :
         trace[j - 1].kind = "fixedUpdate" /\ trace[j - 1].sid = "physics"
    /\ \A j \in At("collisionFlush") :
         \E i \in At("step") :
           /\ i < j /\ SameTick(i, j)
           /\ \A m \in (i + 1) .. (j - 1) : trace[m].kind # "fixedUpdate"
    /\ \A j \in At("fixedUpdate") :
         /\ trace[j].sid # "projectile"
         /\ trace[j].sid = "player" => \E i \in At("step") : i < j /\ SameTick(i, j)

C6_Witness ==
  /\ AfterUpdate
  /\ lastErr = "none"
  /\ lastOp.inst = MaxTicks
  /\ flushed # <<>>
  /\ Cardinality(At("step")) = MaxTicks
  /\ Cardinality(At("collisionFlush")) = MaxTicks
  /\ Cardinality({j \in At("fixedUpdate") : trace[j].sid = "player"}) = MaxTicks

\* A direction vector with both components present and within [-1, 1].
C8_Direction(v) ==
  /\ v # Undefined
  /\ "x" \in DOMAIN v /\ "y" \in DOMAIN v
  /\ v.x \in {-1, 0, 1} /\ v.y \in {-1, 0, 1}

\* The message is an envelope with a tag of ActionType and the payload that
\* tag requires.
C8_WellFormed(m) ==
  /\ m # Undefined
  /\ "action" \in DOMAIN m /\ m.action \in 0 .. 4
  /\ "data" \in DOMAIN m /\ m.data # Undefined
  /\ CASE m.action = MOVE_PLAYER -> C8_Direction(m.data)
       [] m.action = MOUSE_DIR -> "dir" \in DOMAIN m.data /\ C8_Direction(m.data.dir)
       [] OTHER -> /\ "type" \in DOMAIN m.data /\ m.data.type \in {0, 1}
                   /\ m.action \in {PORTAL_ATTACK, COMBAT_ATTACK}
                        => /\ "mouseDir" \in DOMAIN m.data
                           /\ C8_Direction(m.data.mouseDir)

C8_DropStep ==
  (lastOp'.op = "gameAction" /\ ~C8_WellFormed(lastOp'.msg))
    => /\ actionQueue' = actionQueue
       /\ entities' = entities
       /\ players' = players
       /\ touched' = {}
       /\ trace' = <<>>
       /\ lastErr' = "none"

\* C8: a GAME_ACTION message whose envelope or payload fails its schema
\* appends nothing to the action queue, runs no handler, changes no
\* component and raises no error.
C8_MalformedDropped == [][C8_DropStep]_vars

C8_Witness ==
  /\ lastOp.op = "gameAction"
  /\ roomInfo.started
  /\ lastOp.msg = [action |-> MOVE_PLAYER, data |-> Vec2(2, 0)]
  /\ Len(actionQueue) = 1
  /\ lastErr = "none"

(***************************************************************************)
(* Properties of the system list.                                          *)
(***************************************************************************)
CallbackKinds == {"update", "fixedUpdate", "stateUpdate"}

\* The systems of the sequence that define the callback, in its order.
RECURSIVE Defining(_, _)
Defining(syss, kind) ==
  IF syss = <<>> THEN <<>>
  ELSE IF kind \in System(Head(syss)).callbacks
  THEN <<Head(syss)>> \o Defining(Tail(syss), kind)
  ELSE Defining(Tail(syss), kind)

\* The callback invocations of the last run, in order.
RECURSIVE InvocationsOf(_)
InvocationsOf(tr) ==
  IF tr = <<>> THEN <<>>
  ELSE IF Head(tr).kind \in CallbackKinds
  THEN <<Head(tr)>> \o InvocationsOf(Tail(tr))
  ELSE InvocationsOf(Tail(tr))

Invocations == InvocationsOf(trace)

InvokedSystems == [i \in 1 .. Len(Invocations) |-> Invocations[i].sid]

IsPrefix(a, b) == Len(a) <= Len(b) /\ a = SubSeq(b, 1, Len(a))

\* The position of system s in the sequence (0: absent).
PosIn(syss, s) ==
  IF s \in SeqRange(syss) THEN CHOOSE i \in 1 .. Len(syss) : syss[i] = s ELSE 0

\* The system list holds no system twice and is in non-increasing priority.
C11_Sorted ==
  \A i, j \in 1 .. Len(systems) :
    i < j => /\ systems[i] # systems[j]
             /\ System(systems[i]).priority >= System(systems[j]).priority

\* addSystem and removeSystem keep the relative order of the other systems,
\* and addSystem places the new system after those of equal priority.
C11_OrderStep ==
  /\ \A a, b \in SeqRange(systems) \cap SeqRange(systems') :
       (PosIn(systems, a) < PosIn(systems, b)) <=> (PosIn(systems', a) < PosIn(systems', b))
  /\ \A s \in SeqRange(systems') \ SeqRange(systems) :
       \A a \in SeqRange(systems) :
         System(a).priority = System(s).priority => PosIn(systems', a) < PosIn(systems', s)

\* A run of update, fixedUpdate or stateUpdate that returns has invoked
\* that callback, and no other, once on each registered system that defines
\* it, in the order of the system list; a run that raised has invoked a
\* prefix of them.  Each system was passed the result set of its query.
C11_Dispatch ==
  lastOp.op \in CallbackKinds =>
    /\ \A i \in 1 .. Len(Invocations) :
         /\ Invocations[i].kind = lastOp.op
         /\ Invocations[i].data = queryEntities[queryKey(Invocations[i].sid)]
    /\ IF lastErr = "none"
       THEN InvokedSystems = Defining(systems, lastOp.op)
       ELSE IsPrefix(InvokedSystems, Defining(systems, lastOp.op))

\* C11: after any sequence of addSystem and removeSystem calls, each of
\* update, fixedUpdate and stateUpdate invokes the corresponding callback of
\* every registered system that defines it exactly once per call, in
\* non-increasing priority order (systems of equal priority in registration
\* order), and passes each system the result set of its own query rather
\* than the full store.
C11_SystemsRunInOrder ==
  /\ [](C11_Sorted /\ C11_Dispatch)
  /\ [][C11_OrderStep]_vars

\* An update on a client registry has run two systems of equal priority,
\* and one of them was passed a set that is not the whole store.
C11_Witness ==
  /\ lastOp.op = "update" /\ lastErr = "none"
  /\ systems = <<"sync", "mouse">>
  /\ InvokedSystems = <<"sync", "mouse">>
  /\ Invocations[1].data # MapKeys(entities)
  /\ Invocations[1].data # {}

\* The system's scheduling category is that of the other side.
Mismatched(s) ==
  \/ System(s).type = "SERVER" /\ type = "CLIENT"
  \/ System(s).type = "CLIENT" /\ type = "SERVER"

\* No mismatched system is in the list, and no run has invoked one.
C12_NeverRegistered ==
  /\ \A s \in SysIds : Mismatched(s) => ~hasSystem(s)
  /\ \A i \in 1 .. Len(Invocations) : ~Mismatched(Invocations[i].sid)

\* addSystem of a mismatched system raises nothing and changes neither the
\* system list nor the query index; addSystem of a SERVER_AND_CLIENT system
\* that is not yet registered raises nothing and registers it.
C12_AddStep ==
  lastOp'.op = "addSystem" =>
    /\ Mismatched(lastOp'.sid) =>
         /\ lastErr' = "none"
         /\ systems' = systems
         /\ entityQueries' = entityQueries
         /\ queryEntities' = queryEntities
         /\ lastOp'.sid \notin SeqRange(systems')
    /\ (System(lastOp'.sid).type = "SERVER_AND_CLIENT" /\ ~hasSystem(lastOp'.sid)) =>
         /\ lastErr' = "none"
         /\ lastOp'.sid \in SeqRange(systems')

\* C12: addSystem of a SERVER-type system on a CLIENT registry, or of a
\* CLIENT-type system on a SERVER registry, raises no error, leaves the
\* system list and the query index unchanged, makes hasSystem return false
\* for it, and none of its callbacks is ever invoked by that registry; a
\* SERVER_AND_CLIENT system is accepted by both registry types.
C12_MismatchedSystemExcluded ==
  /\ []C12_NeverRegistered
  /\ [][C12_AddStep]_vars

\* A client registry with a system and an entity in its query index has
\* been asked to add the SERVER system.
C12_Witness ==
  /\ type = "CLIENT"
  /\ lastOp.op = "addSystem" /\ lastOp.sid = "server"
  /\ lastErr = "none"
  /\ hasSystem("sync")
  /\ \E k \in DOMAIN queryEntities : queryEntities[k] # {}

\* addSystem of a registered system and removeSystem of a system that is
\* not registered raise an error and change neither the system list nor
\* the query index.
C13_ErrorStep ==
  (\/ lastOp'.op = "addSystem" /\ lastOp'.sid \in SeqRange(systems)
   \/ lastOp'.op = "removeSystem" /\ lastOp'.sid \notin SeqRange(systems)) =>
    /\ lastErr' = "Error"
    /\ systems' = systems
    /\ entityQueries' = entityQueries
    /\ queryEntities' = queryEntities

\* C13: addSystem of a system instance that is already registered raises an
\* error, and removeSystem of a system that is not registered raises an
\* error; in both cases the system list, its order and all query result
\* sets are unchanged.
C13_DuplicateOrMissingRaises == [][C13_ErrorStep]_vars

\* A system has been added a second time to a registry of two systems
\* whose query index holds an entity.
C13_Witness ==
  /\ lastOp.op = "addSystem" /\ lastErr = "Error"
  /\ Len(systems) = 2 /\ hasSystem(lastOp.sid)
  /\ \E k \in DOMAIN queryEntities : queryEntities[k] # {}

(***************************************************************************)
(* Properties of the query keys.                                           *)
(***************************************************************************)
\* C14: getEntityQueryKey returns the same key for two queries exactly when
\* they contain the same set of component types, regardless of insertion
\* order; registered systems whose queries have equal keys share one result
\* set, so the number of materialized result sets always equals the number
\* of distinct required-component sets among the registered systems.
C14_KeyIffSameTypes ==
  /\ lastOp.op = "getEntityQueryKey" =>
       ((lastOp.msg.keyA = lastOp.msg.keyB)
          <=> (SeqRange(lastOp.msg.a) = SeqRange(lastOp.msg.b)))
  /\ Cardinality(DOMAIN queryEntities) =
       Cardinality({SeqRange(System(s).query) : s \in SeqRange(systems)})

(***************************************************************************)
(* Properties of delayed enqueues.                                         *)
(***************************************************************************)
\* enqueue with a positive delay leaves the queue as it is and starts a
\* timer; enqueue without delay, or with delay 0, appends to the queue at
\* once and starts no timer.
C15_EnqueueStep ==
  lastOp'.op = "enqueue" =>
    IF lastOp'.inst > 0
    THEN actionQueue' = actionQueue /\ Len(timers') = Len(timers) + 1
    ELSE Len(actionQueue') = Len(actionQueue) + 1 /\ timers' = timers

\* The timer's callback appends its action to the queue.
C15_TimeoutStep ==
  lastOp'.op = "timeout" =>
    /\ actionQueue' = Append(actionQueue, timers[lastOp'.inst])
    /\ Len(timers') = Len(timers) - 1

\* A flush takes the queue as it is when it starts and no timer's action:
\* it invokes the handlers of the accepted entries of that queue, in order,
\* up to the first entry that raises; a flush that returns has dispatched
\* the whole queue and left it empty.
C15_FlushStep ==
  (lastOp'.op = "flush" /\ flush) =>
    /\ timers' = timers
    /\ IsPrefix(Invoked', SelectSeq(actionQueue, Accepted))
    /\ lastErr' = "none" =>
         /\ Invoked' = SelectSeq(actionQueue, Accepted)
         /\ actionQueue' = <<>>

\* C15: an action enqueued with a positive delay is not dispatched by any
\* flush that runs before its delay timer has fired and is dispatched by
\* the first flush that runs after the timer fires; an action enqueued with
\* no delay (or delay 0) is pending immediately and is dispatched by the
\* very next flush.
C15_DelayedEnqueue ==
  /\ [][C15_EnqueueStep]_vars
  /\ [][C15_TimeoutStep]_vars
  /\ [][C15_FlushStep]_vars

\* A flush has invoked a handler and returned while a timer was pending.
C15_Witness ==
  /\ AfterFlush /\ lastErr = "none"
  /\ Len(trace) >= 1
  /\ Len(timers) >= 1
  /\ Accepted(timers[1])

\* C16: every enqueued action is dispatched to its handler in at most one
\* flush: once a flush has invoked the handler for an action, no later flush
\* invokes it again for that same enqueue, also when another handler or
\* validator raises an error during that flush.  Stated of the flush that
\* comes next: after a flush that has invoked handlers, a flush of the queue
\* it left (nothing was enqueued since) invokes no handler.
C16_DispatchedAtMostOnce ==
  (AfterFlush /\ trace # <<>>) => flushWorld(World).trace = <<>>

(***************************************************************************)
(* PhysicsWorld.fixedUpdate on the fields of the components and of the     *)
(* Matter bodies.  Numbers are in hundredths (density 0.01 is 1).  A body  *)
(* is a handle: a positive number, NoBody for undefined.                   *)
(***************************************************************************)
CircleColliderId == 192

PolygonColliderId == 194

\* enum ColliderType
CIRCLE == 0

RECTANGLE == 1

POLYGON == 2

NoBody == 0

Null == [null |-> TRUE]

\* Upper bound on the number of Matter bodies ever created.
MaxBodies == 3

\* Upper bound on the number of entities of the physics specification.
MaxPhysEntities == 2

\* The mask 4294967295 as two halves of 16 bits.
AllBits == <<65535, 65535>>

\* new Transform()
newTransform ==
  [componentId |-> TransformId, inst |-> 1, position |-> Vec2(0, 0), zIndex |-> 0,
   rotation |-> 0, scale |-> Vec2(1, 1)]

\* new Rigidbody()
newRigidbody ==
  [componentId |-> RigidbodyId, inst |-> 1, velocity |-> Vec2(0, 0),
   angularVelocity |-> 0, density |-> 1, inertia |-> 0, restitution |-> 0,
   friction |-> 10, frictionAir |-> 1, frictionStatic |-> 50, isStatic |-> FALSE,
   body |-> NoBody]

\* The Collider constructor; dimensions: <<radius>>, <<width, height>> or
\* <<vertices>>.
newCollider(componentId, colliderType, dimensions) ==
  [componentId |-> componentId, inst |-> 1, type |-> colliderType, isSensor |-> FALSE,
   group |-> 0, category |-> 1, mask |-> AllBits, body |-> NoBody,
   dimensions |-> dimensions]

newCircleCollider(radius) == newCollider(CircleColliderId, CIRCLE, <<radius>>)

newRectangleCollider(width, height) ==
  newCollider(RectangleColliderId, RECTANGLE, <<width, height>>)

newPolygonCollider(vertices) == newCollider(PolygonColliderId, POLYGON, <<vertices>>)

ColliderIds == {RectangleColliderId, CircleColliderId, PolygonColliderId}

\* The state a fixedUpdate works on: the store, PhysicsWorld, the error.
PhysWorld == [entities |-> entities, m |-> matter, err |-> "none"]

\* Entity.getComponent(e, C) of an entity that has it.
Comp(pw, id, cid) == MapGet(MapGet(pw.entities, id), toString(cid))

HasComp(pw, id, cid) ==
  MapHas(pw.entities, id) /\ MapHas(MapGet(pw.entities, id), toString(cid))

\* An assignment to fields of a component of the entity: c is the component
\* after it.
SetComp(pw, id, c) ==
  [pw EXCEPT !.entities =
     MapSet(pw.entities, id, MapSet(MapGet(pw.entities, id), toString(c.componentId), c))]

\* PhysicsWorld.getCollider(entity)
getCollider(pw, id) ==
  IF HasComp(pw, id, RectangleColliderId) THEN Comp(pw, id, RectangleColliderId)
  ELSE IF HasComp(pw, id, CircleColliderId) THEN Comp(pw, id, CircleColliderId)
  ELSE IF HasComp(pw, id, PolygonColliderId) THEN Comp(pw, id, PolygonColliderId)
  ELSE Null

\* collider?.type, -1 for undefined
colliderType(collider) == IF collider = Null THEN -1 ELSE collider.type

BodyOf(pw, h) == MapGet(pw.m.body, h)

\* A deleteBody that leaves the body in the Matter world.
deleteBodyKeepInWorld(pw, entity) ==
  [pw EXCEPT !.m = [bodies |-> MapDelete(pw.m.bodies, entity),
                    matterBodies |-> MapDelete(pw.m.matterBodies, MapGet(pw.m.bodies, entity)),
                    world |-> pw.m.world,
                    body |-> pw.m.body,
                    nextBody |-> pw.m.nextBody]]

\* PhysicsWorld.deleteBody(entity)
deleteBody(pw, entity) ==
  [pw EXCEPT !.m = [bodies |-> MapDelete(pw.m.bodies, entity),
                    matterBodies |-> MapDelete(pw.m.matterBodies, MapGet(pw.m.bodies, entity)),
                    world |-> pw.m.world \ {MapGet(pw.m.bodies, entity)},
                    body |-> MapDelete(pw.m.body, MapGet(pw.m.bodies, entity)),
                    nextBody |-> pw.m.nextBody]]

\* The ids of a set in the order of their numbers: the order in which the
\* model iterates a Set or a Map of entity ids.
NumLess(a, b) == Len(a) < Len(b) \/ (Len(a) = Len(b) /\ StrLess(a, b))

RECURSIVE InOrder(_)
InOrder(S) ==
  IF S = {} THEN <<>>
  ELSE <<CHOOSE a \in S : \A b \in S \ {a} : NumLess(a, b)>>
         \o InOrder(S \ {CHOOSE a \in S : \A b \in S \ {a} : NumLess(a, b)})

\* The entities argument of the call: the result set of the system's query.
PhysEntities == queryEntities[queryKey("physics")]

\* deletion step, over the keys of this.bodies
RECURSIVE deletionStep(_, _)
deletionStep(pw, keys) ==
  IF keys = <<>> THEN pw
  ELSE deletionStep(IF Head(keys) \notin PhysEntities THEN deleteBody(pw, Head(keys)) ELSE pw,
                    Tail(keys))

\* const bodyNeedsCreated = ...
bodyNeedsCreated(pw, id) ==
  \/ Comp(pw, id, RigidbodyId).body = NoBody
  \/ (getCollider(pw, id) # Null /\ getCollider(pw, id).body = NoBody)
  \/ ~MapHas(pw.m.matterBodies, Comp(pw, id, RigidbodyId).body)
  \/ colliderType(getCollider(pw, id)) #
       BodyOf(pw, Comp(pw, id, RigidbodyId).body).plugin.colliderType

\* Matter.Body.setStatic(body, isStatic) on the fields the model keeps.
setStatic(b, isStatic) ==
  IF isStatic
  THEN [b EXCEPT !.original = IF b.isStatic THEN b.original
                              ELSE <<[restitution |-> b.restitution, friction |-> b.friction]>>,
                 !.restitution = 0, !.friction = 100, !.isStatic = TRUE]
  ELSE IF b.original # <<>>
  THEN [b EXCEPT !.restitution = b.original[1].restitution,
                 !.friction = b.original[1].friction,
                 !.original = <<>>, !.isStatic = FALSE]
  ELSE [b EXCEPT !.isStatic = FALSE]

\* The body Matter.Bodies.rectangle/circle/fromVertices returns at the
\* transform's position, with the plugin fields createBody gives it.
newBody(id, transform, collider) ==
  [position |-> transform.position, angle |-> 0, velocity |-> Vec2(0, 0),
   angularVelocity |-> 0, isStatic |-> FALSE, restitution |-> 0, friction |-> 10,
   frictionAir |-> 1, frictionStatic |-> 50, isSensor |-> FALSE,
   collisionFilter |-> [group |-> 0, category |-> 1, mask |-> AllBits],
   original |-> <<>>,
   plugin |-> [entity |-> id, colliderType |-> colliderType(collider),
               dimensions |-> IF collider = Null THEN <<>> ELSE collider.dimensions,
               bodyScale |-> transform.scale]]

\* The calls of the Rigidbody setters in createBody, as far as they write
\* the body: each assigns the component the value it has.
bodyFromRigidbody(b, rigidbody) ==
  setStatic([b EXCEPT !.velocity = rigidbody.velocity,
                      !.angularVelocity = rigidbody.angularVelocity,
                      !.restitution = rigidbody.restitution,
                      !.friction = rigidbody.friction,
                      !.frictionAir = rigidbody.frictionAir,
                      !.frictionStatic = rigidbody.frictionStatic],
            rigidbody.isStatic)

\* The calls of the Collider setters in createBody.
bodyFromCollider(b, collider) ==
  IF collider = Null THEN b
  ELSE [b EXCEPT !.isSensor = collider.isSensor,
                 !.collisionFilter = [group |-> collider.group,
                                      category |-> collider.category,
                                      mask |-> collider.mask]]

\* Collider.setBody(collider, body) in createBody.
colliderSetBody(pw, id, h) ==
  IF getCollider(pw, id) = Null THEN pw
  ELSE SetComp(pw, id, [getCollider(pw, id) EXCEPT !.body = h])

\* this.bodies.set, this.matterBodies.set, Matter.World.add
addBody(pw, id, h, b) ==
  [pw EXCEPT !.m = [bodies |-> MapSet(pw.m.bodies, id, h),
                    matterBodies |-> MapSet(pw.m.matterBodies, h, id),
                    world |-> pw.m.world \cup {h},
                    body |-> MapSet(pw.m.body, h, b),
                    nextBody |-> h + 1]]

\* PhysicsWorld.createBody(entity)
createBody(pw, id) ==
  addBody(colliderSetBody(SetComp(pw, id, [Comp(pw, id, RigidbodyId)
                                             EXCEPT !.body = pw.m.nextBody]),
                          id, pw.m.nextBody),
          id, pw.m.nextBody,
          bodyFromCollider(bodyFromRigidbody(newBody(id, Comp(pw, id, TransformId),
                                                     getCollider(pw, id)),
                                             Comp(pw, id, RigidbodyId)),
                           getCollider(pw, id)))

\* if (bodyNeedsCreated && this.bodies.has(entity)) deleteBody;
\* if (bodyNeedsCreated) createBody
ensureBody(pw, id) ==
  IF ~bodyNeedsCreated(pw, id) THEN pw
  ELSE createBody(IF MapHas(pw.m.bodies, id) THEN deleteBody(pw, id) ELSE pw, id)

\* update from rigidbody, update from transform
updateBody(pw, id, h) ==
  [pw EXCEPT !.m.body =
     MapSet(pw.m.body, h,
            [BodyOf(pw, h) EXCEPT !.velocity = Comp(pw, id, RigidbodyId).velocity,
                                  !.angularVelocity = Comp(pw, id, RigidbodyId).angularVelocity,
                                  !.position = Comp(pw, id, TransformId).position,
                                  !.angle = Comp(pw, id, TransformId).rotation,
                                  !.plugin.bodyScale = Comp(pw, id, TransformId).scale])]

updateFromComponents(pw, id) == updateBody(pw, id, Comp(pw, id, RigidbodyId).body)

\* creation step, over the entities of the call; registry.get raises for an
\* id that is not in the store.
RECURSIVE creationStep(_, _)
creationStep(pw, ids) ==
  IF ~Ok(pw) \/ ids = <<>> THEN pw
  ELSE IF ~MapHas(pw.entities, Head(ids)) THEN Throw(pw, "Error")
  ELSE creationStep(updateFromComponents(ensureBody(pw, Head(ids)), Head(ids)), Tail(ids))

\* The solver outcomes the model draws from.
Outcomes == {0, 1}

\* Matter.Engine.update: every body of the world that is not static gets
\* the position, angle and velocities the solver computed.
engineUpdateBodies(pw, out) ==
  IF ~Ok(pw) THEN pw
  ELSE [pw EXCEPT !.m.body =
          {<<p[1], IF p[1] \in pw.m.world /\ ~p[2].isStatic
                   THEN [p[2] EXCEPT !.position = Vec2(out, out), !.angle = out,
                                     !.velocity = Vec2(out, 0), !.angularVelocity = out]
                   ELSE p[2]>> : p \in pw.m.body}]

\* A Rigidbody.update that also reads the body's friction.
RigidbodyUpdateWithFriction(rigidbody, b) ==
  [rigidbody EXCEPT !.velocity = b.velocity, !.angularVelocity = b.angularVelocity,
                    !.friction = b.friction]

\* Rigidbody.update(rigidbody), b its body
RigidbodyUpdate(rigidbody, b) ==
  [rigidbody EXCEPT !.velocity = b.velocity, !.angularVelocity = b.angularVelocity]

\* The sync step for one entity whose rigidbody has the body h.
syncBody(pw, id, h) ==
  SetComp(SetComp(pw, id, RigidbodyUpdate(Comp(pw, id, RigidbodyId), BodyOf(pw, h))),
          id, [Comp(pw, id, TransformId) EXCEPT !.position = BodyOf(pw, h).position,
                                                !.rotation = BodyOf(pw, h).angle])

\* sync step
RECURSIVE syncStep(_, _)
syncStep(pw, ids) ==
  IF ~Ok(pw) \/ ids = <<>> THEN pw
  ELSE IF ~MapHas(pw.entities, Head(ids)) THEN Throw(pw, "Error")
  ELSE IF Comp(pw, Head(ids), RigidbodyId).body = NoBody THEN syncStep(pw, Tail(ids))
  ELSE syncStep(syncBody(pw, Head(ids), Comp(pw, Head(ids), RigidbodyId).body), Tail(ids))

\* PhysicsWorld.fixedUpdate on the fields.  No entity has a Constraint and
\* no collider has a callback: the constraint steps and the flush of the
\* collision events do nothing.
worldFixedUpdate(pw, out) ==
  syncStep(engineUpdateBodies(creationStep(deletionStep(pw, InOrder(MapKeys(pw.m.bodies))),
                                           InOrder(PhysEntities)),
                              out),
           InOrder(PhysEntities))

\* The number of bodies the creation step of the next fixedUpdate creates.
Creations ==
  Cardinality({id \in PhysEntities \cap MapKeys(entities) : bodyNeedsCreated(PhysWorld, id)})

\* A fixed update of the registry whose only system is the PhysicsWorld.
physicsTick(out) ==
  /\ matter.nextBody + Creations <= MaxBodies + 1
  /\ entities' = worldFixedUpdate(PhysWorld, out).entities
  /\ matter' = worldFixedUpdate(PhysWorld, out).m
  /\ bodies' = MapKeys(worldFixedUpdate(PhysWorld, out).m.bodies)
  /\ lastErr' = worldFixedUpdate(PhysWorld, out).err
  /\ lastOp' = [NoOp EXCEPT !.op = "PhysicsWorld.fixedUpdate", !.inst = out]
  /\ ResetHistory
  /\ UNCHANGED <<type, nextId, systems, entityQueries, queryEntities, players, handlers,
                 validators, actionQueue, clients, roomInfo, started, updateCallbacks,
                 timers, collisions, extVars>>

\* A static setter of a component class, called on the component of the
\* entity: c is the component after the call.
setter(name, id, c) ==
  /\ entities' = SetComp(PhysWorld, id, c).entities
  /\ lastOp' = [NoOp EXCEPT !.op = name, !.id = id, !.ctype = c.componentId]
  /\ lastErr' = "none"
  /\ ResetHistory
  /\ UNCHANGED <<type, nextId, systems, entityQueries, queryEntities, players, handlers,
                 validators, actionQueue, bodies, roomVars>>

Dimensions == {1, 2}

\* RectangleCollider.setWidth(collider, width)
setWidth(id, width) ==
  /\ HasComp(PhysWorld, id, RectangleColliderId)
  /\ setter("setWidth", id,
            [Comp(PhysWorld, id, RectangleColliderId)
               EXCEPT !.dimensions[1] = width, !.body = NoBody])

\* RectangleCollider.setHeight(collider, height)
setHeight(id, height) ==
  /\ HasComp(PhysWorld, id, RectangleColliderId)
  /\ setter("setHeight", id,
            [Comp(PhysWorld, id, RectangleColliderId)
               EXCEPT !.dimensions[2] = height, !.body = NoBody])

\* CircleCollider.setRadius(collider, radius)
setRadius(id, radius) ==
  /\ HasComp(PhysWorld, id, CircleColliderId)
  /\ setter("setRadius", id,
            [Comp(PhysWorld, id, CircleColliderId)
               EXCEPT !.dimensions[1] = radius, !.body = NoBody])

\* PolygonCollider.setVertices(collider, vertices)
setVertices(id, vertices) ==
  /\ HasComp(PhysWorld, id, PolygonColliderId)
  /\ setter("setVertices", id,
            [Comp(PhysWorld, id, PolygonColliderId)
               EXCEPT !.dimensions[1] = vertices, !.body = NoBody])

\* Rigidbody.setIsStatic(rigidbody, isStatic)
setIsStatic(id, isStatic) ==
  /\ HasComp(PhysWorld, id, RigidbodyId)
  /\ entities' = SetComp(PhysWorld, id, [Comp(PhysWorld, id, RigidbodyId)
                                           EXCEPT !.isStatic = isStatic]).entities
  /\ matter' = IF MapHas(matter.body, Comp(PhysWorld, id, RigidbodyId).body)
               THEN [matter EXCEPT !.body =
                       MapSet(matter.body, Comp(PhysWorld, id, RigidbodyId).body,
                              setStatic(BodyOf(PhysWorld, Comp(PhysWorld, id, RigidbodyId).body),
                                        isStatic))]
               ELSE matter
  /\ lastOp' = [NoOp EXCEPT !.op = "setIsStatic", !.id = id, !.ctype = RigidbodyId]
  /\ lastErr' = "none"
  /\ ResetHistory
  /\ UNCHANGED <<type, nextId, systems, entityQueries, queryEntities, players, handlers,
                 validators, actionQueue, bodies, clients, roomInfo, started,
                 updateCallbacks, timers, collisions, extVars>>

\* The components the physics specification adds.
PhysComponents ==
  {newTransform, newRigidbody, newRectangleCollider(1, 1), newCircleCollider(1),
   newPolygonCollider(1)}

\* The entity has no collider of another class than the component's.
NoOtherCollider(id, c) ==
  c.componentId \in ColliderIds =>
    \A k \in ColliderIds \ {c.componentId} : ~HasComp(PhysWorld, id, k)

PhysIds == {toString(n) : n \in 0 .. (MaxPhysEntities - 1)}

\* Upper bound on the number of entities of the specifications of the
\* colliders and of the fields.
MaxShapedEntities == 1

ShapedIds == {toString(n) : n \in 0 .. (MaxShapedEntities - 1)}

\* The life of the bodies of entities without collider: the solver leaves
\* every body where it is.
BodiesNext ==
  \/ nextId < MaxPhysEntities /\ create /\ SysOther
  \/ \E id \in PhysIds : destroy(id) /\ SysOther
  \/ \E id \in PhysIds, c \in {newTransform, newRigidbody} : add(id, c) /\ SysOther
  \/ \E id \in PhysIds, c \in {TransformId, RigidbodyId} : remove(id, c) /\ SysOther
  \/ physicsTick(0)

\* The colliders of an entity.
CollidersNext ==
  \/ nextId < MaxShapedEntities /\ create /\ SysOther
  \/ \E id \in ShapedIds, c \in PhysComponents :
       NoOtherCollider(id, c) /\ add(id, c) /\ SysOther
  \/ \E id \in ShapedIds, c \in ColliderIds : remove(id, c) /\ SysOther
  \/ \E id \in ShapedIds, d \in Dimensions : setWidth(id, d)
  \/ \E id \in ShapedIds, d \in Dimensions : setHeight(id, d)
  \/ \E id \in ShapedIds, d \in Dimensions : setRadius(id, d)
  \/ \E id \in ShapedIds, d \in Dimensions : setVertices(id, d)
  \/ physicsTick(0)

\* The fields of the components: an entity with a rectangle collider or
\* none, static or not, which the solver moves.
FieldsNext ==
  \/ nextId < MaxShapedEntities /\ create /\ SysOther
  \/ \E id \in ShapedIds, c \in {newTransform, newRigidbody, newRectangleCollider(1, 1)} :
       add(id, c) /\ SysOther
  \/ \E id \in ShapedIds, b \in BOOLEAN : setIsStatic(id, b)
  \/ \E out \in Outcomes : physicsTick(out)

\* A server engine as constructed: the PhysicsWorld is its only system.
PhysInit == EngineInit /\ type = "SERVER"

SpecBodies == PhysInit /\ [][BodiesNext]_vars

SpecColliders == PhysInit /\ [][CollidersNext]_vars

SpecFields == PhysInit /\ [][FieldsNext]_vars

(***************************************************************************)
(* Claims about the receipt of a game action.                              *)
(***************************************************************************)
\* The receipt of a GAME_ACTION message leaves the store, the query result
\* sets, the players and the bodies as they were and invokes no handler: it
\* appends at most one entry to the action queue.
C17_ReceiptStep ==
  lastOp'.op = "gameAction" =>
    /\ entities' = entities
    /\ queryEntities' = queryEntities
    /\ players' = players
    /\ bodies' = bodies
    /\ nextId' = nextId
    /\ touched' = {}
    /\ trace' = <<>>
    /\ \/ actionQueue' = actionQueue
       \/ /\ Len(actionQueue') = Len(actionQueue) + 1
          /\ SubSeq(actionQueue', 1, Len(actionQueue)) = actionQueue

\* Every handler invocation of an update is for an entry that was in the
\* queue when the update began, lies between the start and the return of
\* the flush of its fixed tick, and no callback of that tick precedes it.
C17_HandlersInsideFlush ==
  AfterUpdate =>
    \A j \in At("handler") :
      /\ [action |-> trace[j].action, data |-> trace[j].data] \in SeqRange(flushed)
      /\ \E i \in At("flush") : i < j /\ SameTick(i, j)
      /\ \A i \in At("flushed") \cup At("fixedUpdate") \cup At(PRE_FIXED_UPDATE)
                 \cup At(POST_FIXED_UPDATE) \cup At("update") :
           ~(i < j /\ SameTick(i, j))

\* C17: a game action received by the server changes no component and no
\* player field when it is received; its handler runs only inside the
\* action flush of a later fixed tick, never between two systems'
\* fixedUpdate callbacks.
C17_HandledOnlyInFlush == [][C17_ReceiptStep]_vars /\ []C17_HandlersInsideFlush

\* An update of two fixed ticks has dispatched a received action, and the
\* fixedUpdate callbacks of several systems have run in its tick.
C17_Witness ==
  /\ AfterUpdate
  /\ lastOp.inst = MaxTicks
  /\ lastErr = "none"
  /\ At("handler") # {}
  /\ \E i, k \in At("fixedUpdate") :
       /\ i < k
       /\ SameTick(i, k)
       /\ trace[i].sid # trace[k].sid
       /\ \E j \in At("handler") : j < i /\ SameTick(j, i)

(***************************************************************************)
(* Claims about the bodies of the PhysicsWorld.                            *)
(***************************************************************************)
AfterPhysics == lastOp.op = "PhysicsWorld.fixedUpdate"

\* The entities whose body is in the Matter world.
InWorld == {MapGet(matter.body, h).plugin.entity : h \in matter.world}

\* C18: at the end of every PhysicsWorld.fixedUpdate the world holds a body
\* for an entity exactly if the entity is in the result set of the query
\* {Transform, Rigidbody}; an entity that was destroyed or lost its Transform
\* or Rigidbody has no body left, and the fixedUpdate has not raised.
C18_BodiesMatchQuery ==
  AfterPhysics =>
    /\ lastErr = "none"
    /\ MapKeys(matter.bodies) = PhysEntities
    /\ InWorld = PhysEntities
    /\ InWorld = Matching(System("physics").query)

\* The last call set a dimension of the entity's collider or gave the
\* entity a collider.
ShapeSet(id) ==
  /\ lastOp.id = id
  /\ \/ lastOp.op \in {"setWidth", "setHeight", "setRadius", "setVertices"}
     \/ lastOp.op = "add" /\ lastOp.ctype \in ColliderIds /\ lastErr = "none"

\* The body of the entity was made from another collider than the entity
\* has now: of another kind (or none), of other dimensions, or one that has
\* been replaced or had a dimension set since.
Outdated(id) ==
  \/ colliderType(getCollider(PhysWorld, id)) #
       MapGet(matter.body, MapGet(matter.bodies, id)).plugin.colliderType
  \/ /\ getCollider(PhysWorld, id) # Null
     /\ \/ getCollider(PhysWorld, id).body = NoBody
        \/ getCollider(PhysWorld, id).dimensions #
             MapGet(matter.body, MapGet(matter.bodies, id)).plugin.dimensions

\* The bodies of the entity in the Matter world.
BodiesInWorld(m, id) == {h \in m.world : MapGet(m.body, h).plugin.entity = id}

\* The fixedUpdate that follows a change of the shape of an entity that has
\* a body and still matches the query takes the old body out of the world
\* and puts exactly one new body in, made from the collider as it is now.
C19_RecreateStep ==
  lastOp'.op = "PhysicsWorld.fixedUpdate" =>
    \A id \in PhysEntities :
      (MapHas(matter.bodies, id) /\ (ShapeSet(id) \/ Outdated(id))) =>
        /\ lastErr' = "none"
        /\ MapGet(matter.bodies, id) \notin matter'.world
        /\ Cardinality(BodiesInWorld(matter', id)) = 1
        /\ BodiesInWorld(matter', id) = {MapGet(matter'.bodies, id)}
        /\ MapGet(matter'.bodies, id) >= matter.nextBody
        /\ MapGet(matter'.body, MapGet(matter'.bodies, id)).plugin.colliderType =
             colliderType(getCollider(PhysWorld, id))
        /\ MapGet(matter'.body, MapGet(matter'.bodies, id)).plugin.dimensions =
             (IF getCollider(PhysWorld, id) = Null THEN <<>>
              ELSE getCollider(PhysWorld, id).dimensions)

\* No entity has two bodies in the Matter world.
C19_OneBodyPerEntity ==
  \A h, k \in matter.world :
    MapGet(matter.body, h).plugin.entity = MapGet(matter.body, k).plugin.entity => h = k

\* C19: after a collider's dimensions were set, its kind changed, or a
\* collider was added or removed on an entity with a body, the next
\* PhysicsWorld.fixedUpdate removes the old body and creates exactly one new
\* body; an entity never has two bodies in the world at once.
C19_BodyRecreatedOnce == [][C19_RecreateStep]_vars /\ []C19_OneBodyPerEntity

\* A fixedUpdate has replaced the body of a rectangle whose width was set.
C19_Witness ==
  /\ AfterPhysics
  /\ lastErr = "none"
  /\ \E h \in matter.world :
       /\ h > 1
       /\ MapGet(matter.body, h).plugin.colliderType = RECTANGLE
       /\ MapGet(matter.body, h).plugin.dimensions[1] = 2

(***************************************************************************)
(* Claims about the fields a fixedUpdate writes.                           *)
(***************************************************************************)
\* The component without the fields the claim lets a fixedUpdate write and
\* without its reference to the body.
Unsynced(c) ==
  IF c.componentId = TransformId
  THEN [c EXCEPT !.position = Vec2(0, 0), !.rotation = 0]
  ELSE IF c.componentId = RigidbodyId
  THEN [c EXCEPT !.velocity = Vec2(0, 0), !.angularVelocity = 0, !.body = NoBody]
  ELSE [c EXCEPT !.body = NoBody]

UnsyncedOf(components) == {<<p[1], Unsynced(p[2])>> : p \in components}

\* The entity's Transform and Rigidbody hold what its body holds.
Synced(ents, m, id) ==
  /\ MapGet(MapGet(ents, id), toString(TransformId)).position =
       MapGet(m.body, MapGet(m.bodies, id)).position
  /\ MapGet(MapGet(ents, id), toString(TransformId)).rotation =
       MapGet(m.body, MapGet(m.bodies, id)).angle
  /\ MapGet(MapGet(ents, id), toString(RigidbodyId)).velocity =
       MapGet(m.body, MapGet(m.bodies, id)).velocity
  /\ MapGet(MapGet(ents, id), toString(RigidbodyId)).angularVelocity =
       MapGet(m.body, MapGet(m.bodies, id)).angularVelocity

\* A fixedUpdate leaves every entity its components, and every component
\* its fields but Transform.position, Transform.rotation,
\* Rigidbody.velocity, Rigidbody.angularVelocity and the reference to the
\* body; those four hold the values of the entity's body afterwards.
C20_SyncStep ==
  lastOp'.op = "PhysicsWorld.fixedUpdate" =>
    /\ MapKeys(entities') = MapKeys(entities)
    /\ \A id \in MapKeys(entities) :
         UnsyncedOf(MapGet(entities', id)) = UnsyncedOf(MapGet(entities, id))
    /\ \A id \in MapKeys(matter'.bodies) : Synced(entities', matter', id)

\* C20: PhysicsWorld.fixedUpdate writes back from the body only
\* Transform.position, Transform.rotation, Rigidbody.velocity and
\* Rigidbody.angularVelocity; it changes neither another field of the
\* Rigidbody (isStatic, density, inertia, restitution, friction,
\* frictionAir, frictionStatic) nor a field of a Collider.
C20_WritesOnlySyncedFields == [][C20_SyncStep]_vars

\* A fixedUpdate has written the solver's outcome back to an entity with a
\* collider, which has since become static and been through a fixedUpdate.
C20_Witness ==
  /\ AfterPhysics
  /\ lastErr = "none"
  /\ \E id \in MapKeys(matter.bodies) :
       /\ HasComp(PhysWorld, id, RectangleColliderId)
       /\ Comp(PhysWorld, id, TransformId).position = Vec2(1, 1)
       /\ Comp(PhysWorld, id, RigidbodyId).velocity = Vec2(1, 0)
       /\ Comp(PhysWorld, id, RigidbodyId).isStatic
       /\ Comp(PhysWorld, id, RigidbodyId).friction = 10
       /\ MapGet(matter.body, MapGet(matter.bodies, id)).friction = 100

(***************************************************************************)
(* Collision events of the PhysicsWorld: the handlers setupMatterEvents    *)
(* puts on the Matter engine, the buffer of the queued events and the      *)
(* callbacks of the colliders.                                             *)
(***************************************************************************)
COLLISION_START == 0
COLLISION_ACTIVE == 1
COLLISION_END == 2
COLLISION_START_INSTANT == 3
COLLISION_ACTIVE_INSTANT == 4
COLLISION_END_INSTANT == 5

ColliderEvents ==
  {COLLISION_START, COLLISION_ACTIVE, COLLISION_END,
   COLLISION_START_INSTANT, COLLISION_ACTIVE_INSTANT, COLLISION_END_INSTANT}

\* The event of the Matter engine an event of the colliders belongs to.
MatterEvent(event) == event % 3

\* The number of entities of the collision specification, the number of
\* callbacks its colliders have together, and the number of pairs one
\* solver step reports.
MaxCollEntities == 2
MaxCallbacks == 2
MaxPairs == 2

\* What a callback does: it only reads, it calls registry.destroy(a.id)
\* (as the callback of the projectile's collider does) or it calls
\* registry.destroy(b.id).
Does == {"read", "destroyA", "destroyB"}

\* The state a fixedUpdate with collisions works on.
CollWorld ==
  [entities |-> entities, queryEntities |-> queryEntities, m |-> matter,
   events |-> collisions.events, callbacks |-> collisions.callbacks,
   trace |-> <<>>, err |-> "none"]

\* A Matter pair; a body stands by its plugin.entity.
Pair(a, b) == [bodyA |-> a, bodyB |-> b]

\* The invocation of a callback of the collider of entity a: the trace
\* keeps the event, the pair, and whether a and b are in the store at this
\* moment.
callback(cw, r, pair, a, b) ==
  IF ~Ok(cw) THEN cw
  ELSE IF r.does = "destroyA"
  THEN wDestroy([cw EXCEPT !.trace = Append(@, [kind |-> "callback", action |-> r.event,
                                                data |-> [pair |-> pair,
                                                          a |-> wHas(cw, a),
                                                          b |-> wHas(cw, b)],
                                                sid |-> a])], a)
  ELSE IF r.does = "destroyB"
  THEN wDestroy([cw EXCEPT !.trace = Append(@, [kind |-> "callback", action |-> r.event,
                                                data |-> [pair |-> pair,
                                                          a |-> wHas(cw, a),
                                                          b |-> wHas(cw, b)],
                                                sid |-> a])], b)
  ELSE [cw EXCEPT !.trace = Append(@, [kind |-> "callback", action |-> r.event,
                                       data |-> [pair |-> pair,
                                                 a |-> wHas(cw, a),
                                                 b |-> wHas(cw, b)],
                                       sid |-> a])]

\* collider.collisionCallbacks.get(event) of the collider of entity a: a
\* collider has at most one callback for an event.
CallbacksOf(cw, a, event) ==
  IF \E r \in cw.callbacks : r.entity = a /\ r.event = event
  THEN <<CHOOSE r \in cw.callbacks : r.entity = a /\ r.event = event>>
  ELSE <<>>

\* Collider.fire(collider, event, pair, a, b): forEach over the callbacks.
RECURSIVE fireCallbacks(_, _, _, _, _)
fireCallbacks(cw, cbs, pair, a, b) ==
  IF ~Ok(cw) \/ cbs = <<>> THEN cw
  ELSE fireCallbacks(callback(cw, Head(cbs), pair, a, b), Tail(cbs), pair, a, b)

colliderFire(cw, event, pair, a, b) ==
  fireCallbacks(cw, CallbacksOf(cw, a, event), pair, a, b)

\* The body of the loop of onMatterCollisionEvent: both entities and both
\* colliders are looked up before the first callback runs.
dispatchPair(cw, event, pair) ==
  IF ~wHas(cw, pair.bodyA) \/ ~wHas(cw, pair.bodyB) THEN cw
  ELSE IF getCollider(cw, pair.bodyB) = Null
  THEN (IF getCollider(cw, pair.bodyA) = Null THEN cw
        ELSE colliderFire(cw, event, pair, pair.bodyA, pair.bodyB))
  ELSE colliderFire(IF getCollider(cw, pair.bodyA) = Null THEN cw
                    ELSE colliderFire(cw, event, pair, pair.bodyA, pair.bodyB),
                    event, pair, pair.bodyB, pair.bodyA)

\* PhysicsWorld.onMatterCollisionEvent(type, pairs)
RECURSIVE onMatterCollisionEvent(_, _, _)
onMatterCollisionEvent(cw, event, pairs) ==
  IF ~Ok(cw) \/ pairs = <<>> THEN cw
  ELSE onMatterCollisionEvent(dispatchPair(cw, event, Head(pairs)), event, Tail(pairs))

\* PhysicsWorld.queueMatterCollisionEvent(type, pairs): the Map keeps the
\* types in the order of their first insertion.
queueMatterCollisionEvent(cw, event, pairs) ==
  IF ~Ok(cw) THEN cw
  ELSE IF \E i \in 1..Len(cw.events) : cw.events[i].type = event
  THEN [cw EXCEPT !.events =
          [i \in 1..Len(cw.events) |->
             IF cw.events[i].type = event
             THEN [type |-> event, pairs |-> cw.events[i].pairs \o pairs]
             ELSE cw.events[i]]]
  ELSE [cw EXCEPT !.events = Append(@, [type |-> event, pairs |-> pairs])]

\* The loop of flushMatterCollisionEvents over the entries of the Map.
RECURSIVE flushEntries(_, _)
flushEntries(cw, entries) ==
  IF ~Ok(cw) \/ entries = <<>> THEN cw
  ELSE flushEntries(onMatterCollisionEvent(cw, Head(entries).type, Head(entries).pairs),
                    Tail(entries))

\* PhysicsWorld.flushMatterCollisionEvents(): the dispatch, then clear().
flushCollisionEvents(cw) ==
  IF ~Ok(cw) THEN cw
  ELSE IF Ok(flushEntries(cw, cw.events))
  THEN [flushEntries(cw, cw.events) EXCEPT !.events = <<>>]
  ELSE flushEntries(cw, cw.events)

\* One handler of setupMatterEvents: the instant dispatch, then the queue.
matterEvent(cw, event, pairs) ==
  IF pairs = <<>> THEN cw
  ELSE queueMatterCollisionEvent(onMatterCollisionEvent(cw, event + 3, pairs), event, pairs)

\* Matter.Engine.update with the events it triggers: collisionStart, then
\* collisionActive and collisionEnd, each only for a non-empty list.
engineUpdateEvents(cw, report) ==
  matterEvent(matterEvent(matterEvent(Mark(engineUpdateBodies(cw, 0), "step", "physics"),
                                      COLLISION_START, report[1]),
                          COLLISION_ACTIVE, report[2]),
              COLLISION_END, report[3])

\* PhysicsWorld.fixedUpdate of a world whose colliders have callbacks.
worldFixedUpdateEvents(cw, report) ==
  flushCollisionEvents(
    Mark(Mark(syncStep(engineUpdateEvents(
                         creationStep(deletionStep(cw, InOrder(MapKeys(cw.m.bodies))),
                                      InOrder(PhysEntities)),
                         report),
                       InOrder(PhysEntities)),
              "sync", "physics"),
         "collisionFlush", "physics"))

\* The entities of the collision specification: each has a Transform, a
\* Rigidbody and a rectangle collider, as the entities the game creates.
CollIds == {toString(n) : n \in 0 .. (MaxCollEntities - 1)}

CollEntity == addComponents({}, <<newTransform, newRigidbody, newRectangleCollider(1, 1)>>)

\* The pairs of two bodies, bodyA the body created first.
RECURSIVE PairsFrom(_)
PairsFrom(a) ==
  IF a >= MaxCollEntities - 1 THEN <<>>
  ELSE [b \in 1 .. (MaxCollEntities - 1 - a) |-> Pair(toString(a), toString(a + b))]
         \o PairsFrom(a + 1)

AllPairs == PairsFrom(0)

PairsIn(S) == SelectSeq(AllPairs, LAMBDA p : p \in S)

\* The entities whose body the Matter world holds when the solver runs.
Colliding(cw) == {BodyOf(cw, h).plugin.entity : h \in cw.m.world}

Touches(cw, p) == p.bodyA \in Colliding(cw) /\ p.bodyB \in Colliding(cw)

\* What one solver step can report, given the pairs that were colliding
\* after the step before: a pair starts when it was not colliding, is
\* active or ends when it was, and ends when one of its bodies has left the
\* world.
Reports(cw, touching) ==
  {<<PairsIn(s), PairsIn(a), PairsIn(e)>> :
     s \in SUBSET {p \in SeqRange(AllPairs) : p \notin touching /\ Touches(cw, p)},
     a \in SUBSET {p \in touching : Touches(cw, p)},
     e \in SUBSET touching}

ValidReport(cw, touching, report) ==
  /\ Len(report[1]) + Len(report[2]) + Len(report[3]) <= MaxPairs
  /\ SeqRange(report[2]) \cap SeqRange(report[3]) = {}
  /\ \A p \in touching : ~Touches(cw, p) => p \in SeqRange(report[3])

\* The world at the start of the solver step of the next fixedUpdate.
BeforeSolver ==
  creationStep(deletionStep(CollWorld, InOrder(MapKeys(matter.bodies))), InOrder(PhysEntities))

\* A fixed update of the registry whose only system is the PhysicsWorld, in
\* which the solver reports the pairs of report.
collisionTick(report) ==
  /\ matter.nextBody + Creations <= MaxCollEntities + 1
  /\ entities' = worldFixedUpdateEvents(CollWorld, report).entities
  /\ queryEntities' = worldFixedUpdateEvents(CollWorld, report).queryEntities
  /\ matter' = worldFixedUpdateEvents(CollWorld, report).m
  /\ bodies' = MapKeys(worldFixedUpdateEvents(CollWorld, report).m.bodies)
  /\ collisions' =
       [events |-> worldFixedUpdateEvents(CollWorld, report).events,
        callbacks |-> collisions.callbacks,
        touching |-> IF Ok(BeforeSolver)
                     THEN (collisions.touching \cup SeqRange(report[1])) \ SeqRange(report[3])
                     ELSE collisions.touching]
  /\ trace' = worldFixedUpdateEvents(CollWorld, report).trace
  /\ lastErr' = worldFixedUpdateEvents(CollWorld, report).err
  /\ lastOp' = [NoOp EXCEPT !.op = "PhysicsWorld.fixedUpdate", !.msg = report]
  /\ flushed' = <<>>
  /\ touched' = {}
  /\ UNCHANGED <<type, nextId, systems, entityQueries, players, handlers, validators,
                 actionQueue, clients, roomInfo, started, updateCallbacks, timers,
                 extVars>>

\* Collider.on(collider, event, callback) on the collider of the entity.
colliderOn(id, event, does) ==
  /\ Cardinality(collisions.callbacks) < MaxCallbacks
  /\ MapHas(entities, id)
  /\ \A r \in collisions.callbacks : r.entity # id \/ r.event # event
  /\ collisions' = [collisions EXCEPT !.callbacks =
                      @ \cup {[entity |-> id, event |-> event, does |-> does]}]
  /\ lastOp' = [NoOp EXCEPT !.op = "Collider.on", !.id = id]
  /\ lastErr' = "none"
  /\ ResetHistory
  /\ UNCHANGED <<type, nextId, entities, systems, entityQueries, queryEntities, players,
                 handlers, validators, actionQueue, bodies, clients, roomInfo, started,
                 updateCallbacks, timers, matter, extVars>>

CollisionsNext ==
  \/ \E id \in CollIds, event \in ColliderEvents, does \in Does : colliderOn(id, event, does)
  \/ \E report \in Reports(BeforeSolver, collisions.touching) :
       /\ ValidReport(BeforeSolver, collisions.touching, report)
       /\ collisionTick(IF Ok(BeforeSolver) THEN report ELSE <<<<>>, <<>>, <<>>>>)

\* An engine of a server or of a client whose store holds the entities.
CollisionsInit ==
  /\ ActInit
  /\ type \in {"SERVER", "CLIENT"}
  /\ nextId = MaxCollEntities
  /\ entities = {<<id, CollEntity>> : id \in CollIds}
  /\ systems = <<"physics">>
  /\ entityQueries = getAllEntityQueries(<<"physics">>)
  /\ queryEntities = updateEntityMaps(<<"physics">>, {<<id, CollEntity>> : id \in CollIds})
  /\ lastOp = NoOp
  /\ lastErr = "none"

SpecCollisions == CollisionsInit /\ [][CollisionsNext]_vars

(***************************************************************************)
(* Claims about the delivery of the collision events.                      *)
(***************************************************************************)
\* The positions of the trace at which a callback of entity a for the event
\* and the pair was invoked.
Deliveries(tr, event, pair, a) ==
  {i \in 1 .. Len(tr) : /\ tr[i].kind = "callback"
                        /\ tr[i].action = event
                        /\ tr[i].sid = a
                        /\ tr[i].data.pair = pair}

MarkAt(tr, kind) == {i \in 1 .. Len(tr) : tr[i].kind = kind}

\* The callbacks a pair of an event is delivered to.
Listeners(cbs, event, pair) ==
  {cb \in cbs : cb.event = event /\ cb.entity \in {pair.bodyA, pair.bodyB}}

\* A fixedUpdate in which the solver ran delivers every pair the solver
\* reported to each instant callback once, after the start of the step and
\* before the sync, and to each queued callback once, after the sync; it
\* leaves the buffer of the queued events empty.  (A pair one of whose
\* entities a callback has destroyed is delivered at most once.)
C21_TickDelivers ==
  (lastOp'.op = "PhysicsWorld.fixedUpdate" /\ Ok(BeforeSolver)) =>
    /\ collisions'.events = <<>>
    /\ \A t \in 1 .. 3 : \A n0 \in 1 .. Len(lastOp'.msg[t]) :
         \A cb \in Listeners(collisions.callbacks, t - 1, lastOp'.msg[t][n0])
                \cup Listeners(collisions.callbacks, t + 2, lastOp'.msg[t][n0]) :
           LET d == Deliveries(trace', cb.event, lastOp'.msg[t][n0], cb.entity)
           IN  /\ Cardinality(d) <= 1
               /\ (MapHas(entities', lastOp'.msg[t][n0].bodyA) /\
                   MapHas(entities', lastOp'.msg[t][n0].bodyB)) => Cardinality(d) = 1
               /\ \A i \in d :
                    IF cb.event >= 3
                    THEN /\ \E j \in MarkAt(trace', "step") : j < i
                         /\ \A j \in MarkAt(trace', "sync") : i < j
                    ELSE \E j \in MarkAt(trace', "sync") : j < i

\* C21: every collision start/active/end pair the backend reports during a
\* solver step is delivered to the instant callbacks during that step and to
\* the queued callbacks exactly once, after the solver step and the sync of
\* the same fixedUpdate, and the buffer of the queued events is empty
\* afterwards.
C21_PairsDeliveredOnce == [][C21_TickDelivers]_vars

\* C23: no collision callback is invoked for an entity that is not in the
\* store at the moment of the invocation: in particular, when the callback
\* of the first collider of a pair destroys the other entity, the callback
\* of the other entity is not invoked for that pair.
C23_NoCallbackForDestroyed ==
  \A i \in 1 .. Len(trace) : trace[i].kind = "callback" => trace[i].data.a

(***************************************************************************)
(* The action handlers on a store some of whose entities are gone.         *)
(***************************************************************************)
\* Upper bound on the ids the specification of the handlers hands out: the
\* three entities of the player and the projectiles of two portal attacks.
MaxHandlerIds == 5

\* An engine without entities, on which Game.createPlayer is called.
EmptyWorld ==
  [players |-> [p \in Sessions |-> Player(p, FALSE)], nextId |-> 0, entities |-> {},
   queryEntities |-> updateEntityMaps(<<"physics">>, {}), touched |-> {}, bodies |-> {},
   queue |-> <<>>, trace |-> <<>>, err |-> "none"]

\* The entities a handler looks up for the player of its payload.
Refers(w, action, data) ==
  IF ~HasField(data, "player") THEN {}
  ELSE CASE action \in {MOVE_PLAYER, COMBAT_ATTACK} -> {w.players[data.player].entity}
         [] action = TOGGLE_ATTACK_MODE ->
              {w.players[data.player].entity, w.players[data.player].portalGunEntity}
         [] action = PORTAL_ATTACK ->
              IF type = "CLIENT" THEN {}
              ELSE {w.players[data.player].entity, w.players[data.player].portalGunEntity}
         [] action = MOUSE_DIR -> {}

\* ActionsManager.fire(engine, action, data, dt): the call flush makes for
\* an entry of the queue.
fireCall(action, data) ==
  /\ nextId < MaxHandlerIds
  /\ SetWorld(fire(World, [action |-> action, data |-> data]))
  /\ flushed' = <<>>
  /\ lastOp' = [NoOp EXCEPT !.op = "fire", !.inst = action, !.msg = data]
  /\ UNCHANGED <<type, systems, entityQueries, handlers, validators, roomVars>>

\* The payloads of an action type that name the player.
PlayerPayloads(action) == {d \in Payloads(action) : HasField(d, "player")}

HandlersNext ==
  \/ \E id \in MapKeys(entities) : destroy(id) /\ SysOther
  \/ \E a \in ActionType : \E d \in PlayerPayloads(a) : fireCall(a, d)

\* A started game with one player, whose handlers are registered.
StartedGame ==
  /\ type \in {"SERVER", "CLIENT"}
  /\ systems = <<"physics">>
  /\ entityQueries = getAllEntityQueries(<<"physics">>)
  /\ players = createPlayer(EmptyWorld, "s1").players
  /\ nextId = createPlayer(EmptyWorld, "s1").nextId
  /\ entities = createPlayer(EmptyWorld, "s1").entities
  /\ queryEntities = updateEntityMaps(<<"physics">>, createPlayer(EmptyWorld, "s1").entities)
  /\ handlers = ActionType
  /\ validators = ActionType
  /\ actionQueue = <<>>
  /\ touched = {}
  /\ flushed = <<>>
  /\ trace = <<>>
  /\ bodies = {}
  /\ clients = [p \in Sessions |-> IF p \in Solo THEN "joined" ELSE "none"]
  /\ roomInfo = [startable |-> TRUE, started |-> TRUE, order |-> <<"s1">>]
  /\ started = TRUE
  /\ updateCallbacks = {}
  /\ timers = <<>>
  /\ matter = NoMatter
  /\ collisions = NoCollisions
  /\ constraints = NoConstraints
  /\ replica = NoReplica
  /\ loop = NoLoop
  /\ jump = NoJump
  /\ lastOp = NoOp
  /\ lastErr = "none"

HandlersInit == StartedGame /\ runs = NoRuns

SpecHandlers == HandlersInit /\ [][HandlersNext]_vars

(***************************************************************************)
(* Claims about the handlers and missing entities.                         *)
(***************************************************************************)
\* A handler that is invoked while an entity it looks up is not in the
\* store raises nothing, leaves the store as it is and writes no component.
C22_HandlerStep ==
  (/\ lastOp'.op = "fire"
   /\ \E id \in Refers(World, lastOp'.inst, lastOp'.msg) : ~MapHas(entities, id)) =>
    /\ lastErr' = "none"
    /\ entities' = entities
    /\ touched' = {}

\* C22: each registered action handler raises no error and changes no
\* entity or component when an entity it refers to (the player's entity or
\* portal-gun entity) is not in the store when the handler runs.
C22_MissingEntityIsNoOp == [][C22_HandlerStep]_vars

(***************************************************************************)
(* Constraints of the PhysicsWorld: the joints between the bodies of two   *)
(* entities.  A joint is [id, bodyA, bodyB]; this.constraints maps the     *)
(* owner to the id of its joint.                                           *)
(***************************************************************************)
ConstraintId == 195

\* Upper bound on the joints the constraint specification creates, and on
\* its entities.
MaxJoints == 2
MaxConsEntities == 2

\* new Constraint(entityBId)
newConstraint(entityBId) ==
  [componentId |-> ConstraintId, inst |-> 1, entityBId |-> entityBId, length |-> -1,
   stiffness |-> 1, damping |-> 0, pointA |-> Vec2(0, 0), pointB |-> Vec2(0, 0),
   constraint |-> NoBody]

\* The state a fixedUpdate with constraints works on.
ConsWorld ==
  [entities |-> entities, m |-> matter, err |-> "none",
   cons |-> [constraints EXCEPT !.removed = <<>>]]

\* PhysicsWorld.deleteConstraint(entity).  Matter.World.remove of undefined,
\* for an entity that is not in this.constraints, reads a property of
\* undefined.
deleteConstraint(cw, entity) ==
  IF ~Ok(cw) THEN cw
  ELSE IF ~MapHas(cw.cons.map, entity) THEN Throw(cw, "TypeError")
  ELSE [cw EXCEPT !.cons = [map |-> MapDelete(cw.cons.map, entity),
                            world |-> {j \in cw.cons.world :
                                         j.id # MapGet(cw.cons.map, entity)},
                            next |-> cw.cons.next,
                            removed |-> Append(cw.cons.removed, entity)]]

\* The second check of the constraint deletion step: entity B.
deleteForEntityB(cw, entity) ==
  IF ~Ok(cw) THEN cw
  ELSE IF ~HasComp(cw, entity, ConstraintId) THEN Throw(cw, "Error")
  ELSE IF \/ ~MapHas(cw.entities, Comp(cw, entity, ConstraintId).entityBId)
          \/ ~MapHas(cw.m.bodies, Comp(cw, entity, ConstraintId).entityBId)
  THEN deleteConstraint(cw, entity)
  ELSE cw

\* constraint deletion step, over the keys of this.constraints
RECURSIVE constraintDeletionStep(_, _)
constraintDeletionStep(cw, keys) ==
  IF ~Ok(cw) \/ keys = <<>> THEN cw
  ELSE IF ~MapHas(cw.entities, Head(keys)) THEN Throw(cw, "Error")
  ELSE constraintDeletionStep(
         deleteForEntityB(IF Head(keys) \notin PhysEntities
                             \/ ~HasComp(cw, Head(keys), ConstraintId)
                          THEN deleteConstraint(cw, Head(keys))
                          ELSE cw,
                          Head(keys)),
         Tail(keys))

\* PhysicsWorld.createConstraint(entityA, entityB)
createConstraint(cw, a, b) ==
  IF ~MapHas(cw.m.bodies, a) \/ ~MapHas(cw.m.bodies, b) THEN Throw(cw, "Error")
  ELSE [SetComp(cw, a, [Comp(cw, a, ConstraintId) EXCEPT !.constraint = cw.cons.next])
          EXCEPT !.cons = [map |-> MapSet(cw.cons.map, a, cw.cons.next),
                           world |-> cw.cons.world \cup
                                       {[id |-> cw.cons.next,
                                         bodyA |-> MapGet(cw.m.bodies, a),
                                         bodyB |-> MapGet(cw.m.bodies, b)]},
                           next |-> cw.cons.next + 1,
                           removed |-> cw.cons.removed]]

\* if (!Constraint.getConstraint(constraint)) { ... createConstraint }
createIfNeeded(cw, id) ==
  IF ~Ok(cw) \/ Comp(cw, id, ConstraintId).constraint # NoBody THEN cw
  ELSE IF ~MapHas(cw.entities, Comp(cw, id, ConstraintId).entityBId)
  THEN Throw(cw, "Error")
  ELSE createConstraint(cw, id, Comp(cw, id, ConstraintId).entityBId)

\* constraint needs to be created but already exists, remove it
deleteReplaced(cw, id) ==
  IF Comp(cw, id, ConstraintId).constraint = NoBody /\ MapHas(cw.cons.map, id)
  THEN deleteConstraint(cw, id)
  ELSE cw

\* constraint creation step, over the entities of the call
RECURSIVE constraintCreationStep(_, _)
constraintCreationStep(cw, ids) ==
  IF ~Ok(cw) \/ ids = <<>> THEN cw
  ELSE IF ~MapHas(cw.entities, Head(ids)) THEN Throw(cw, "Error")
  ELSE IF ~HasComp(cw, Head(ids), ConstraintId) THEN constraintCreationStep(cw, Tail(ids))
  ELSE constraintCreationStep(createIfNeeded(deleteReplaced(cw, Head(ids)), Head(ids)),
                              Tail(ids))

\* PhysicsWorld.fixedUpdate with the constraint steps; no collider has a
\* callback.
worldFixedUpdateConstraints(cw) ==
  syncStep(
    engineUpdateBodies(
      constraintCreationStep(
        creationStep(
          constraintDeletionStep(deletionStep(cw, InOrder(MapKeys(cw.m.bodies))),
                                 InOrder(MapKeys(cw.cons.map))),
          InOrder(PhysEntities)),
        InOrder(PhysEntities)),
      0),
    InOrder(PhysEntities))

\* A fixed update of the registry whose only system is the PhysicsWorld.
constraintTick ==
  /\ matter.nextBody + Creations <= MaxBodies + 1
  /\ constraints.next <= MaxJoints
  /\ entities' = worldFixedUpdateConstraints(ConsWorld).entities
  /\ matter' = worldFixedUpdateConstraints(ConsWorld).m
  /\ bodies' = MapKeys(worldFixedUpdateConstraints(ConsWorld).m.bodies)
  /\ constraints' = worldFixedUpdateConstraints(ConsWorld).cons
  /\ lastErr' = worldFixedUpdateConstraints(ConsWorld).err
  /\ lastOp' = [NoOp EXCEPT !.op = "PhysicsWorld.fixedUpdate"]
  /\ ResetHistory
  /\ UNCHANGED <<type, nextId, systems, entityQueries, queryEntities, players, handlers,
                 validators, actionQueue, clients, roomInfo, started, updateCallbacks,
                 timers, collisions, replica, runs, loop, jump>>

ConsIds == {toString(n) : n \in 0 .. (MaxConsEntities - 1)}

\* The life of a constraint of entity 0 whose entity B is entity 1.
ConstraintsNext ==
  \/ nextId < MaxConsEntities /\ create /\ SysOther
  \/ \E id \in ConsIds : destroy(id) /\ SysOther
  \/ \E id \in ConsIds, c \in {newTransform, newRigidbody} : add(id, c) /\ SysOther
  \/ add(toString(0), newConstraint(toString(1))) /\ SysOther
  \/ \E id \in ConsIds : remove(id, RigidbodyId) /\ SysOther
  \/ remove(toString(0), ConstraintId) /\ SysOther
  \/ constraintTick

SpecConstraints == PhysInit /\ [][ConstraintsNext]_vars

(***************************************************************************)
(* Claims about the joints.                                                *)
(***************************************************************************)
\* Both endpoints of the constraint of entity id resolve to bodies in the
\* state (ents, m): the owner matches the physics query and has a body, and
\* entity B is in the store and has a body.
Resolves(ents, m, id) ==
  /\ MapHas(ents, id)
  /\ id \in PhysEntities
  /\ MapHas(MapGet(ents, id), toString(ConstraintId))
  /\ MapHas(m.bodies, id)
  /\ MapHas(ents, MapGet(MapGet(ents, id), toString(ConstraintId)).entityBId)
  /\ MapHas(m.bodies, MapGet(MapGet(ents, id), toString(ConstraintId)).entityBId)

\* A fixedUpdate completes without raising; afterwards the joints of the
\* Matter world are those of the constraints whose endpoints both resolve
\* to bodies, and no joint was removed twice.
C24_TickStep ==
  lastOp'.op = "PhysicsWorld.fixedUpdate" =>
    /\ lastErr' = "none"
    /\ \A id \in ConsIds :
         Resolves(entities', matter', id) <=> MapHas(constraints'.map, id)
    /\ \A j \in constraints'.world :
         /\ \E id \in MapKeys(constraints'.map) : MapGet(constraints'.map, id) = j.id
         /\ j.bodyA \in matter'.world
         /\ j.bodyB \in matter'.world
    /\ \A i, k \in 1 .. Len(constraints'.removed) :
         constraints'.removed[i] = constraints'.removed[k] => i = k

\* C24: a backend joint of a Constraint component exists only while both
\* endpoint entities have live bodies; it is created in the first fixed tick
\* in which both endpoints resolve to bodies; when an endpoint is destroyed
\* or stops matching the physics query, or the owner loses its Constraint,
\* the next fixedUpdate removes the joint once and completes without
\* raising; a constraint whose entity B does not exist yet is not created in
\* that tick.
C24_JointFollowsEndpoints == [][C24_TickStep]_vars

(***************************************************************************)
(* The values of @colyseus/schema fields on the wire.  A JavaScript number *)
(* is a binary float of 53 significant bits: [zero, neg, exp, frac] with   *)
(* frac the 52 bits after the leading one, as two words of 26 bits.  An    *)
(* integer of 32 bits or more is the pair <<q, r>> of its quotient and     *)
(* remainder by 65536.                                                     *)
(***************************************************************************)
\* Bits of the fraction of a JavaScript number.
DoubleBits == 52

\* Bits of the fraction of a float32.
FloatBits == 23

\* Bits of a word of a fraction, and of half a word.
WordBits == 26

HalfBits == 13

RECURSIVE Pow2(_)
Pow2(k) == IF k = 0 THEN 1 ELSE 2 * Pow2(k - 1)

WordRange == Pow2(WordBits)

HalfRange == Pow2(HalfBits)

\* The next 13 bits of the binary expansion of r / den, for 0 <= r < den,
\* and what they leave of r.
Bits(r, den) == (r * HalfRange) \div den

Left(r, den) == (r * HalfRange) % den

\* The fraction plus one unit of its last place; past all ones it is zero.
Increment(frac) ==
  IF frac[2] + 1 < WordRange THEN <<frac[1], frac[2] + 1>>
  ELSE <<(frac[1] + 1) % WordRange, 0>>

AllOnes(frac) == frac = <<WordRange - 1, WordRange - 1>>

Zero == [zero |-> TRUE, neg |-> FALSE, exp |-> 0, frac |-> <<0, 0>>]

\* The double nearest to num / den * 2^e, ties to even, for
\* 1 <= num / den < 2: frac are the first 52 bits of num / den - 1 and rest
\* is what they leave.
Rounded(e, den, frac, rest) ==
  IF 2 * rest > den \/ (2 * rest = den /\ frac[2] % 2 = 1)
  THEN [zero |-> FALSE, neg |-> FALSE,
        exp |-> IF AllOnes(frac) THEN e + 1 ELSE e,
        frac |-> Increment(frac)]
  ELSE [zero |-> FALSE, neg |-> FALSE, exp |-> e, frac |-> frac]

\* num / den * 2^e for num, den > 0, after scaling to 1 <= num / den < 2.
RECURSIVE Scaled(_, _, _)
Scaled(num, den, e) ==
  IF num < den THEN Scaled(2 * num, den, e - 1)
  ELSE IF num >= 2 * den THEN Scaled(num, 2 * den, e + 1)
  ELSE Rounded(e, den,
               <<Bits(num - den, den) * HalfRange + Bits(Left(num - den, den), den),
                 Bits(Left(Left(num - den, den), den), den) * HalfRange
                   + Bits(Left(Left(Left(num - den, den), den), den), den)>>,
               Left(Left(Left(Left(num - den, den), den), den), den))

\* The number literal n / d of the source (n, d > 0): the nearest double.
Positive(n, d) == Scaled(n, d, 0)

Number(n, d) ==
  IF n = 0 THEN Zero
  ELSE IF n < 0 THEN [Positive(-n, d) EXCEPT !.neg = TRUE]
  ELSE Positive(n, d)

\* The fraction of a float32 is the first 23 bits of the first word.
FloatShift == Pow2(WordBits - FloatBits)

FloatRange == Pow2(FloatBits)

FloatHalf == Pow2(DoubleBits - FloatBits - 1)

\* @type("float32"): writeFloatLE / readFloatLE.  The number is rounded to
\* 24 significant bits, ties to even; the client reads it back as a double.
\* The exponents of the model are within the range of a float32.
float32(x) ==
  IF x.zero THEN x
  ELSE IF \/ (x.frac[1] % FloatShift) * WordRange + x.frac[2] > FloatHalf
          \/ /\ (x.frac[1] % FloatShift) * WordRange + x.frac[2] = FloatHalf
             /\ (x.frac[1] \div FloatShift) % 2 = 1
  THEN [zero |-> FALSE, neg |-> x.neg,
        exp |-> IF (x.frac[1] \div FloatShift) + 1 = FloatRange THEN x.exp + 1 ELSE x.exp,
        frac |-> <<(((x.frac[1] \div FloatShift) + 1) % FloatRange) * FloatShift, 0>>]
  ELSE [zero |-> FALSE, neg |-> x.neg, exp |-> x.exp,
        frac |-> <<(x.frac[1] \div FloatShift) * FloatShift, 0>>]

\* @type("float64") and @type("number") of a number that is no integer:
\* writeDoubleLE / readDoubleLE.
float64(x) == x

\* The numbers of 16 bits, and of 8 bits.
Word == 65536

Byte == 256

\* The integer v of the source as <<q, r>>.
Integer(v) == <<v \div Word, v % Word>>

\* @type("int32"): the four low bytes, read back as a signed integer.
int32(h) == <<((h[1] + (Word \div 2)) % Word) - (Word \div 2), h[2]>>

\* @type("uint32"): the four low bytes, read back as an unsigned integer.
uint32(h) == <<h[1] % Word, h[2]>>

\* @type("int16")
int16(h) == <<IF h[2] >= Word \div 2 THEN -1 ELSE 0, h[2]>>

\* @type("uint8")
uint8(h) == <<0, h[2] % Byte>>

\* @type("int8")
int8(h) ==
  IF h[2] % Byte >= Byte \div 2 THEN <<-1, Word - Byte + (h[2] % Byte)>>
  ELSE <<0, h[2] % Byte>>

\* Vec2: two float64 fields.
vec2(v) == [x |-> float64(v.x), y |-> float64(v.y)]

(***************************************************************************)
(* A client registry whose EntityMap mirrors state.entities of the server. *)
(* replica.store is the server's map; entities is the client's map, which  *)
(* the decoder of @colyseus/schema writes and whose callbacks the          *)
(* constructor of the client registry registers.  The library is not part  *)
(* of the sources; its behaviour: the callbacks of a patch run after the   *)
(* whole patch is decoded; listen(field) runs its callback at registration *)
(* if the field is set and after a patch that assigns the field; onAdd of  *)
(* a map runs its callback at registration for every item of the map and   *)
(* after a patch that adds a key; onRemove after a patch that deletes one. *)
(***************************************************************************)
\* Upper bound on the entities the server creates.
MaxMirrorEntities == 2

\* The divisor of the fields of a Rigidbody, which are in hundredths.
Hundredths == 100

\* The values of the fields of a component that carry @type, as the server
\* holds them; inst is the identity of the instance (its refId).
values(c) ==
  CASE c.componentId = TransformId ->
         [componentId |-> c.componentId, inst |-> c.inst,
          position |-> Vec2(Number(c.position.x, 1), Number(c.position.y, 1)),
          zIndex |-> c.zIndex,
          rotation |-> Number(c.rotation, 1),
          scale |-> Vec2(Number(c.scale.x, 1), Number(c.scale.y, 1))]
    [] c.componentId = RigidbodyId ->
         [componentId |-> c.componentId, inst |-> c.inst,
          velocity |-> Vec2(Number(c.velocity.x, 1), Number(c.velocity.y, 1)),
          angularVelocity |-> Number(c.angularVelocity, Hundredths),
          density |-> Number(c.density, Hundredths),
          inertia |-> Number(c.inertia, Hundredths),
          restitution |-> Number(c.restitution, Hundredths),
          friction |-> Number(c.friction, Hundredths),
          frictionAir |-> Number(c.frictionAir, Hundredths),
          frictionStatic |-> Number(c.frictionStatic, Hundredths),
          isStatic |-> c.isStatic]
    [] c.componentId \in ColliderIds ->
         [componentId |-> c.componentId, inst |-> c.inst,
          type |-> c.type, isSensor |-> c.isSensor,
          group |-> Integer(c.group), category |-> Integer(c.category),
          mask |-> c.mask,
          dimensions |-> [i \in 1 .. Len(c.dimensions) |-> Number(c.dimensions[i], 1)]]

\* The same fields after encode and decode, each by its @type.
decode(v) ==
  CASE v.componentId = TransformId ->
         [v EXCEPT !.componentId = @ % Byte,
                   !.position = vec2(@),
                   !.zIndex = ((@ + (Word \div 2)) % Word) - (Word \div 2),
                   !.rotation = float64(@),
                   !.scale = vec2(@)]
    [] v.componentId = RigidbodyId ->
         [v EXCEPT !.componentId = @ % Byte,
                   !.velocity = vec2(@),
                   !.angularVelocity = float32(@),
                   !.density = float32(@),
                   !.inertia = float32(@),
                   !.restitution = float32(@),
                   !.friction = float32(@),
                   !.frictionAir = float32(@),
                   !.frictionStatic = float32(@)]
    [] v.componentId \in ColliderIds ->
         [v EXCEPT !.componentId = @ % Byte,
                   !.type = ((@ + (Byte \div 2)) % Byte) - (Byte \div 2),
                   !.group = int32(@),
                   !.category = uint32(@),
                   !.mask = int32(@),
                   !.dimensions = [i \in 1 .. Len(@) |-> float32(@[i])]]

\* The components map of an entity as the client decodes it.
decodeComponents(components) == {<<p[1], decode(values(p[2]))>> : p \in components}

\* state.entities as the client decodes it.
decodeStore(store) == {<<p[1], decodeComponents(p[2])>> : p \in store}

\* The keys of componentAddListeners: the constructor of a client registry
\* adds a listener for the three colliders, Rigidbody and Constraint.
componentAddListeners ==
  {toString(cid) : cid \in ColliderIds \cup {RigidbodyId, ConstraintId}}

\* What the listeners of a patch work on: the result sets, the handlers
\* invoked in order, the ids whose entity-created handler ran and whose
\* entity-removed handler did not (known), the ids whose entity-removed
\* handler ran (gone).
MirrorWorld ==
  [qe |-> queryEntities, trace |-> <<>>, known |-> replica.known, gone |-> replica.gone]

Listener(mw, kind, id, key) ==
  [mw EXCEPT !.trace = Append(@, [kind |-> kind, action |-> -1, data |-> key, sid |-> id])]

\* Registry.onEntityCreated(entity)
onEntityCreated(mw, ents, id) ==
  [Listener(mw, "onEntityCreated", id, <<>>) EXCEPT
     !.qe = updateEntityMapsForEntity(EntityOf(ents, id), entityQueries, @),
     !.known = @ \cup {id}]

\* Registry.onEntityModified(entity)
onEntityModified(mw, ents, id) ==
  [Listener(mw, "onEntityModified", id, <<>>) EXCEPT
     !.qe = updateEntityMapsForEntity(EntityOf(ents, id), entityQueries, @)]

\* Registry.onEntityDestroyed(entity): entity is the value the map held.
onEntityDestroyed(mw, ents, id) ==
  [Listener(mw, "onEntityDestroyed", id, <<>>) EXCEPT
     !.qe = deleteEntityFromEntityMaps(EntityOf(ents, id), entityQueries, @).qe,
     !.known = @ \ {id},
     !.gone = @ \cup {id}]

\* Registry.fireComponentAddListeners(entity, component, componentName)
fireComponentAddListeners(mw, id, key) ==
  IF key \notin componentAddListeners THEN mw
  ELSE Listener(mw, "componentAdded", id, key)

RECURSIVE fireForKeys(_, _, _)
fireForKeys(mw, id, keys) ==
  IF keys = <<>> THEN mw
  ELSE fireForKeys(fireComponentAddListeners(mw, id, Head(keys)), id, Tail(keys))

\* A callback of entities.onAdd that registers its listeners before it
\* calls the created handler.
entityAddedListenFirst(mw, ents, id) ==
  onEntityCreated(
    fireForKeys(onEntityModified(mw, ents, id), id, InOrder(MapKeys(MapGet(ents, id)))),
    ents, id)

\* The callback of entities.onAdd: the created handler, then
\* entity.listen("components", ...) whose callback runs at once, then
\* entity.components.onAdd(...) whose callback runs at once for every
\* component the entity arrived with.
entityAdded(mw, ents, id) ==
  fireForKeys(onEntityModified(onEntityCreated(mw, ents, id), ents, id),
              id, InOrder(MapKeys(MapGet(ents, id))))

\* The callback of entities.onRemove.
entityRemoved(mw, ents, id) == onEntityDestroyed(mw, ents, id)

\* The callbacks of the changes of the map state.entities, key by key: old
\* and new are the client's map before and after the patch.
RECURSIVE entitiesChanged(_, _, _, _)
entitiesChanged(mw, old, new, ids) ==
  IF ids = <<>> THEN mw
  ELSE entitiesChanged(
         IF MapHas(new, Head(ids)) /\ ~MapHas(old, Head(ids))
         THEN entityAdded(mw, new, Head(ids))
         ELSE IF MapHas(old, Head(ids)) /\ ~MapHas(new, Head(ids))
         THEN entityRemoved(mw, old, Head(ids))
         ELSE mw,
         old, new, Tail(ids))

\* The callbacks of the changes of the entities themselves: the patch
\* assigns the field components of an entity it adds, which runs the
\* callback of listen; and the keys it adds to a components map run the
\* callback of components.onAdd.  No callback is registered for a key that
\* a patch deletes from a components map.
RECURSIVE componentsChanged(_, _, _, _)
componentsChanged(mw, old, new, ids) ==
  IF ids = <<>> THEN mw
  ELSE componentsChanged(
         IF ~MapHas(new, Head(ids)) THEN mw
         ELSE IF ~MapHas(old, Head(ids))
         THEN fireForKeys(onEntityModified(mw, new, Head(ids)), Head(ids),
                          InOrder(MapKeys(MapGet(new, Head(ids)))))
         ELSE fireForKeys(mw, Head(ids),
                          InOrder(MapKeys(MapGet(new, Head(ids)))
                                    \ MapKeys(MapGet(old, Head(ids))))),
         old, new, Tail(ids))

\* The client applies the patch that carries the server's changes since the
\* last one.
patched(mw, old, new) ==
  componentsChanged(
    entitiesChanged(mw, old, new, InOrder(MapKeys(old) \cup MapKeys(new))),
    old, new, InOrder(MapKeys(old) \cup MapKeys(new)))

MirrorOther ==
  /\ flushed' = <<>>
  /\ touched' = {}
  /\ UNCHANGED <<type, systems, entityQueries, players, handlers, validators,
                 actionQueue, bodies, clients, roomInfo, started, updateCallbacks,
                 timers, matter, collisions, constraints, runs, loop, jump>>

\* The keys of state.entities a patch carries: those the server has added,
\* deleted or changed since the last patch.
patchKeys(sent, store) ==
  {id \in MapKeys(sent) \cup MapKeys(store) :
     ~(MapHas(sent, id) /\ MapHas(store, id) /\ MapGet(sent, id) = MapGet(store, id))}

\* The client's map after the patch: the keys the patch carries are deleted
\* or set to what the server holds, the others keep their value.
decodePatch(ents, sent, store) ==
  {p \in ents : p[1] \notin patchKeys(sent, store)}
    \cup {p \in decodeStore(store) : p[1] \in patchKeys(sent, store)}

\* The Entity instances the decoder constructs for a patch, one for each
\* key the server has added; the constructor of each draws an id from
\* Entity.nextId of the client's process before the decoder assigns the id
\* the server sent.
constructed(sent, store) == Cardinality(MapKeys(store) \ MapKeys(sent))

applyPatch ==
  /\ replica.store # replica.sent
  /\ entities' = decodePatch(entities, replica.sent, replica.store)
  /\ nextId' = nextId + constructed(replica.sent, replica.store)
  /\ queryEntities' =
       patched(MirrorWorld, entities,
               decodePatch(entities, replica.sent, replica.store)).qe
  /\ trace' =
       patched(MirrorWorld, entities,
               decodePatch(entities, replica.sent, replica.store)).trace
  /\ replica' = [replica EXCEPT
                   !.known = patched(MirrorWorld, entities,
                                     decodePatch(entities, replica.sent, replica.store)).known,
                   !.gone = patched(MirrorWorld, entities,
                                    decodePatch(entities, replica.sent, replica.store)).gone,
                   !.sent = replica.store]
  /\ lastOp' = [NoOp EXCEPT !.op = "applyPatch"]
  /\ lastErr' = "none"
  /\ MirrorOther

\* A call of the server's registry or a write of the server's systems, by
\* what it does to state.entities.
serverStep(op, store) ==
  /\ replica' = [replica EXCEPT !.store = store]
  /\ lastOp' = [NoOp EXCEPT !.op = op]
  /\ lastErr' = "none"
  /\ trace' = <<>>
  /\ MirrorOther
  /\ UNCHANGED <<nextId, entities, queryEntities>>

\* registry.create() followed by registry.add(id, c) for each c of cs.
serverCreate(cs) ==
  /\ replica.nextId < MaxMirrorEntities
  /\ replica' = [replica EXCEPT
                   !.store = MapSet(@, toString(replica.nextId), addComponents({}, cs)),
                   !.nextId = @ + 1,
                   !.issued = @ \cup {toString(replica.nextId)}]
  /\ lastOp' = [NoOp EXCEPT !.op = "create", !.id = toString(replica.nextId),
                            !.pre = MapHas(replica.store, toString(replica.nextId))]
  /\ lastErr' = "none"
  /\ trace' = <<>>
  /\ MirrorOther
  /\ UNCHANGED <<nextId, entities, queryEntities>>

\* registry.add(id, c) of a component type the entity does not have.
serverAdd(id, c) ==
  /\ MapHas(replica.store, id)
  /\ ~MapHas(MapGet(replica.store, id), getComponentIdFromInstance(c))
  /\ serverStep("add", MapSet(replica.store, id, addComponent(MapGet(replica.store, id), c)))

\* registry.remove(id, C)
serverRemove(id, cid) ==
  /\ MapHas(replica.store, id)
  /\ MapHas(MapGet(replica.store, id), toString(cid))
  /\ serverStep("remove",
                MapSet(replica.store, id, MapDelete(MapGet(replica.store, id), toString(cid))))

\* registry.destroy(id)
serverDestroy(id) ==
  /\ MapHas(replica.store, id)
  /\ serverStep("destroy", MapDelete(replica.store, id))

\* transform.position.x = x
serverMove(id, x) ==
  /\ MapHas(replica.store, id)
  /\ MapHas(MapGet(replica.store, id), toString(TransformId))
  /\ MapGet(MapGet(replica.store, id), toString(TransformId)).position.x # x
  /\ serverStep("write",
       MapSet(replica.store, id,
              addComponent(MapGet(replica.store, id),
                           [MapGet(MapGet(replica.store, id), toString(TransformId))
                              EXCEPT !.position.x = x])))

MirrorIds == {toString(n) : n \in 0 .. (MaxMirrorEntities - 1)}

MirrorNext ==
  \/ \E cs \in {<<>>, <<newTransform, newRigidbody>>,
                <<newTransform, newRigidbody, newRectangleCollider(1, 1)>>} :
       serverCreate(cs)
  \/ \E id \in MirrorIds, c \in {newTransform, newRigidbody} : serverAdd(id, c)
  \/ \E id \in MirrorIds : serverRemove(id, RigidbodyId)
  \/ \E id \in MirrorIds : serverDestroy(id)
  \/ \E id \in MirrorIds, x \in 0 .. 1 : serverMove(id, x)
  \/ applyPatch

\* A client registry with the PhysicsWorld as only system, on an empty
\* state.
MirrorInit == EngineInit /\ type = "CLIENT"

SpecMirror == MirrorInit /\ [][MirrorNext]_vars

(***************************************************************************)
(* Claims about the client mirror.                                         *)
(***************************************************************************)
AfterPatch == lastOp.op = "applyPatch"

\* The positions of the trace before i at which the listener kind ran for
\* the entity id.
Before(tr, i, kind, id) == {j \in 1 .. (i - 1) : tr[j].kind = kind /\ tr[j].sid = id}

\* At each position of the trace of a patch at which the modified handler
\* or a component-added listener runs for an id, the created handler has
\* run for the id, in this patch or in an earlier one, and the removed
\* handler has not.
C25_PatchStep ==
  lastOp'.op = "applyPatch" =>
    \A i \in 1 .. Len(trace') :
      trace'[i].kind \in {"onEntityModified", "componentAdded"} =>
        /\ \/ trace'[i].sid \in replica.known
           \/ Before(trace', i, "onEntityCreated", trace'[i].sid) # {}
        /\ trace'[i].sid \notin replica.gone
        /\ Before(trace', i, "onEntityDestroyed", trace'[i].sid) = {}

\* C25: on a client registry, for every entity id, the entity-created
\* handler runs before any component-added listener or entity-modified
\* handler for that id, and once the entity-removed handler for that id has
\* run no component-added listener or entity-modified handler runs for it
\* again.
C25_CreatedFirstRemovedLast == [][C25_PatchStep]_vars

\* A patch added an entity with a Rigidbody, so that all three handlers ran
\* for it, after the removed handler had run for another entity.
C25_Witness ==
  /\ AfterPatch
  /\ replica.gone # {}
  /\ \E i, j, k \in 1 .. Len(trace) :
       /\ trace[i].kind = "onEntityCreated"
       /\ trace[j].kind = "onEntityModified"
       /\ trace[k].kind = "componentAdded"
       /\ trace[i].sid = trace[j].sid
       /\ trace[i].sid = trace[k].sid
       /\ trace[i].sid \notin replica.gone

\* C26: on a client registry, after any sequence of applied patches (entity
\* added, entity removed, component added to or removed from an entity that
\* is already mirrored), every query result set contains exactly the ids of
\* the mirrored entities that have all components the query requires: the
\* result sets a server registry computes for the same store contents.
C26_MirrorIndexMatchesStore ==
  AfterPatch =>
    /\ \A i \in 1 .. Len(systems) :
         queryEntities[queryKey(systems[i])] = Matching(System(systems[i]).query)
    /\ queryEntities = updateEntityMaps(systems, entities)

\* state.entities as the server holds it: the values of the fields of every
\* component, before any encoding.
memory(store) == {<<p[1], {<<q[1], values(q[2])>> : q \in p[2]}>> : p \in store}

\* The components both maps hold for the entity id.
Shared(a, b, id) ==
  IF MapHas(a, id) /\ MapHas(b, id)
  THEN MapKeys(MapGet(a, id)) \cap MapKeys(MapGet(b, id))
  ELSE {}

\* After a patch the mirror has the ids of the server's store and, for each,
\* components whose fields equal the server's.
MirrorEqualsStore(mirror, store) == mirror = memory(store)

\* A patch leaves the instances of the mirror in place, and changes on them
\* only the fields the server changed since the last patch.
PatchedInPlace(old, new, sent, store) ==
  \A id \in MapKeys(old) \cap MapKeys(new) :
    \A key \in Shared(old, new, id) \cap Shared(sent, store, id) :
      /\ MapGet(MapGet(new, id), key).inst = MapGet(MapGet(old, id), key).inst
      /\ \A f \in DOMAIN MapGet(MapGet(new, id), key) :
           values(MapGet(MapGet(store, id), key))[f]
               = values(MapGet(MapGet(sent, id), key))[f]
             => MapGet(MapGet(new, id), key)[f] = MapGet(MapGet(old, id), key)[f]

C27_PatchStep ==
  lastOp'.op = "applyPatch" =>
    /\ MirrorEqualsStore(entities', replica'.store)
    /\ PatchedInPlace(entities, entities', replica.sent, replica.store)

\* C27: applying the server's patches to an empty client mirror yields
\* entities with the same ids and field-equal components as the server
\* store; a later patch in which one field of one component changed alters
\* only that field on the mirror, and the mirrored entity and component
\* instances stay the same objects.
C27_MirrorEqualsStore == [][C27_PatchStep]_vars

(***************************************************************************)
(* Two runs of the game in one process.  Both start from the store of a    *)
(* started game with one player and apply the same script: the actions     *)
(* that are in the queue when each fixed tick begins.  Entity.nextId is a  *)
(* static field of the class Entity, so both runs draw their ids from it.  *)
(***************************************************************************)
\* Upper bound on the ticks of a script.
MaxRunTicks == 2

Runs == 1 .. 2

\* The queues of a script: empty, a MOVE_PLAYER or a PORTAL_ATTACK of the
\* player.
ScriptQueues ==
  {<<>>,
   <<[action |-> MOVE_PLAYER, data |-> [player |-> "s1", dir |-> Vec2(1, 0)]]>>,
   <<[action |-> PORTAL_ATTACK,
      data |-> [player |-> "s1", type |-> 1, mouseDir |-> Vec2(1, 0)]]>>}

Scripts == UNION {[1 .. n -> ScriptQueues] : n \in 1 .. MaxRunTicks}

\* The world of run r at the start of its next tick: new Entity() reads
\* Entity.nextId, the queue holds the actions of the script for the tick.
RunWorld(r) ==
  [runs.world[r] EXCEPT !.nextId = runs.counter,
                        !.queue = runs.script[runs.tick[r] + 1],
                        !.touched = {},
                        !.trace = <<>>,
                        !.err = "none"]

\* Engine.fixedUpdate of run r; no projectile reaches portal ground.
runTick(r) ==
  /\ runs.tick[r] < Len(runs.script)
  /\ runs' = [runs EXCEPT
                !.world[r] = engineFixedUpdate(RunWorld(r), FALSE),
                !.tick[r] = @ + 1,
                !.counter = engineFixedUpdate(RunWorld(r), FALSE).nextId]
  /\ lastOp' = [NoOp EXCEPT !.op = "Engine.fixedUpdate", !.old = r]
  /\ lastErr' = engineFixedUpdate(RunWorld(r), FALSE).err
  /\ trace' = engineFixedUpdate(RunWorld(r), FALSE).trace
  /\ flushed' = RunWorld(r).queue
  /\ touched' = engineFixedUpdate(RunWorld(r), FALSE).touched
  /\ UNCHANGED <<type, nextId, entities, systems, entityQueries, queryEntities, players,
                 handlers, validators, actionQueue, bodies, clients, roomInfo, started,
                 updateCallbacks, timers, matter, collisions, constraints, replica, loop,
                 jump>>

RunsNext == \E r \in Runs : runTick(r)

\* Both runs hold the store of the started game; the script is any of the
\* scripts.
RunsInit ==
  /\ StartedGame
  /\ \E script \in Scripts :
       runs = [counter |-> createPlayer(EmptyWorld, "s1").nextId,
               script |-> script,
               tick |-> [r \in Runs |-> 0],
               world |-> [r \in Runs |->
                            [createPlayer(EmptyWorld, "s1") EXCEPT
                               !.queryEntities =
                                  updateEntityMaps(<<"physics">>,
                                                   createPlayer(EmptyWorld, "s1").entities)]]]

SpecRuns == RunsInit /\ [][RunsNext]_vars

(***************************************************************************)
(* Claims about two runs.                                                  *)
(***************************************************************************)
\* C28: two independent runs that start from the same initial store state
\* and apply the same ordered sequence of actions at the same fixed ticks
\* end every tick with identical stores: the same entity ids, the same
\* component sets and the same component and player field values.
C28_RunsAgree ==
  runs.tick[1] = runs.tick[2] =>
    /\ runs.world[1].entities = runs.world[2].entities
    /\ runs.world[1].players = runs.world[2].players

(***************************************************************************)
(* Engine.update(): the accumulator and the fixed ticks.                   *)
(***************************************************************************)
\* Upper bound on the clock, in milliseconds.
MaxNow == 40

\* The milliseconds that pass between two calls.
Steps == {10, 30}

\* The time scales setTimeScale is called with, in halves: -0.5, 0, 0.5
\* and 1.
TimeScales == {-1, 0, 1, 2}

\* Upper bound on the iterations of the while loop the model follows.
MaxLoopTicks == 8

\* const dt = ((now - this.lastUpdateTime) / 1000) * this.timeScale
Elapsed(l) == (l.now * fixedUpdateRate - l.lastUpdateTime) * l.timeScale

\* const fixedDt = this.getFixedUpdateDelta() * this.timeScale
FixedDelta(l) == Second * l.timeScale

\* while (this.updateTimeAccumulator >= fixedDt) { ... }: n iterations have
\* run.  A loop that is still running after MaxLoopTicks iterations has not
\* returned.
RECURSIVE whileLoop(_, _, _)
whileLoop(l, fixedDt, n) ==
  IF l.updateTimeAccumulator < fixedDt THEN [l EXCEPT !.ticks = n, !.returned = TRUE]
  ELSE IF n = MaxLoopTicks THEN [l EXCEPT !.ticks = n, !.returned = FALSE]
  ELSE whileLoop([l EXCEPT !.updateTimeAccumulator = @ - fixedDt], fixedDt, n + 1)

\* The fields after update() of a started engine.
updated(l) ==
  whileLoop([l EXCEPT !.lastUpdateTime = l.now * fixedUpdateRate,
                      !.updateTimeAccumulator = @ + Elapsed(l)],
            FixedDelta(l), 0)

\* The world after update(): the fixed ticks, then the callbacks and the
\* systems' update; a loop that does not return never reaches them.
updatedWorld(w, l) ==
  IF updated(l).returned THEN engineUpdate(w, updated(l).ticks, FALSE)
  ELSE fixedUpdates(w, updated(l).ticks, FALSE)

LoopOther ==
  UNCHANGED <<type, systems, entityQueries, handlers, validators, clients, roomInfo,
              updateCallbacks, timers, matter, collisions, constraints, replica, runs, jump>>

\* Engine.update()
engineUpdateCall ==
  /\ loop.returned
  /\ FixedDelta(loop) > 0 => updated(loop).returned
  /\ loop' = IF started THEN updated(loop) ELSE loop
  /\ SetWorld(IF started THEN updatedWorld(World, loop) ELSE World)
  /\ flushed' = <<>>
  /\ lastOp' = [NoOp EXCEPT !.op = "Engine.update", !.pre = started]
  /\ UNCHANGED started
  /\ LoopOther

LoopStep(op, l, s, e) ==
  /\ loop.returned
  /\ loop' = l
  /\ started' = s
  /\ lastOp' = [NoOp EXCEPT !.op = op]
  /\ lastErr' = e
  /\ ResetHistory
  /\ UNCHANGED <<nextId, entities, queryEntities, players, actionQueue, bodies>>
  /\ LoopOther

\* Engine.start(), with options.manualUpdate
engineStart ==
  LoopStep("start",
           IF started THEN loop
           ELSE [loop EXCEPT !.lastUpdateTime = loop.now * fixedUpdateRate - Second],
           TRUE, "none")

\* Engine.stop()
engineStop == LoopStep("stop", loop, FALSE, "none")

\* Engine.setTimeScale(timeScale)
setTimeScale(timeScale) ==
  IF timeScale < 0 THEN LoopStep("setTimeScale", loop, started, "Error")
  ELSE LoopStep("setTimeScale", [loop EXCEPT !.timeScale = timeScale], started, "none")

\* Time passes.
elapse(ms) ==
  /\ loop.now + ms <= MaxNow
  /\ LoopStep("elapse", [loop EXCEPT !.now = @ + ms], started, "none")

LoopNext ==
  \/ engineStart
  \/ engineStop
  \/ \E timeScale \in TimeScales : setTimeScale(timeScale)
  \/ \E ms \in Steps : elapse(ms)
  \/ engineUpdateCall

\* A constructed engine of a game: the PhysicsWorld and the
\* ProjectileSystem, which has an update callback.
LoopInit ==
  /\ ActInit
  /\ type \in {"SERVER", "CLIENT"}
  /\ nextId = 0
  /\ entities = {}
  /\ systems = <<"physics", "projectile">>
  /\ entityQueries = getAllEntityQueries(<<"physics", "projectile">>)
  /\ queryEntities = updateEntityMaps(<<"physics", "projectile">>, {})
  /\ lastOp = NoOp
  /\ lastErr = "none"

SpecLoop == LoopInit /\ [][LoopNext]_vars

(***************************************************************************)
(* Claims about the update loop.                                           *)
(***************************************************************************)
Ticks(tr) == {i \in 1 .. Len(tr) : tr[i].kind = "tick"}

Updates(tr) == {i \in 1 .. Len(tr) : tr[i].kind = "update"}

\* An update() of a started engine returns; the accumulator it leaves is
\* what it held plus the scaled elapsed time, minus one fixed delta per
\* tick, and lies in [0, fixed delta); every tick precedes every update
\* callback of a system.
C29_UpdateStep ==
  (lastOp'.op = "Engine.update" /\ started) =>
    /\ loop'.returned
    /\ loop'.updateTimeAccumulator >= 0
    /\ loop'.updateTimeAccumulator < FixedDelta(loop)
    /\ loop'.updateTimeAccumulator + loop'.ticks * FixedDelta(loop)
         = loop.updateTimeAccumulator + Elapsed(loop)
    /\ Cardinality(Ticks(trace')) = loop'.ticks
    /\ \A i \in Ticks(trace'), j \in Updates(trace') : i < j

\* C29: each update() on a started engine adds the scaled elapsed time to
\* the accumulator and then runs back-to-back exactly as many fixed ticks as
\* whole fixed deltas fit into it, each with the same dt, so that on return
\* the accumulator is at least 0 and strictly less than one fixed delta; all
\* fixed ticks of an update() run before that update's variable-rate system
\* callbacks.
C29_AccumulatorDrained == [][C29_UpdateStep]_vars

(***************************************************************************)
(* The ids of create(): a server registry and the client registry that     *)
(* mirrors it, each in its own process, and the other registries of the    *)
(* server's process.                                                       *)
(***************************************************************************)
\* create() of another registry of the server's process.
otherCreate ==
  /\ replica.nextId < MaxMirrorEntities
  /\ replica' = [replica EXCEPT !.nextId = @ + 1,
                                !.issued = @ \cup {toString(replica.nextId)}]
  /\ lastOp' = [NoOp EXCEPT !.op = "other", !.id = toString(replica.nextId)]
  /\ lastErr' = "none"
  /\ trace' = <<>>
  /\ MirrorOther
  /\ UNCHANGED <<nextId, entities, queryEntities>>

\* create() of the client registry.
clientCreate ==
  /\ create
  /\ replica' = [replica EXCEPT !.made = @ \cup {toString(nextId)}]
  /\ trace' = <<>>
  /\ flushed' = <<>>
  /\ touched' = {}
  /\ UNCHANGED <<players, handlers, validators, actionQueue, bodies, clients, roomInfo,
                 started, updateCallbacks, timers, matter, collisions, constraints, runs,
                 loop, jump>>

IdsNext ==
  \/ \E cs \in {<<>>, <<newTransform>>, <<newTransform, newRigidbody>>} : serverCreate(cs)
  \/ otherCreate
  \/ \E id \in MirrorIds : serverDestroy(id)
  \/ \E id \in MirrorIds, x \in 0 .. 1 : serverMove(id, x)
  \/ applyPatch
  \/ clientCreate

SpecIds == MirrorInit /\ [][IdsNext]_vars

(***************************************************************************)
(* Claims about the ids of create().                                       *)
(***************************************************************************)
\* A create() of the server registry returns an id that no registry of its
\* process has returned and that is not in its store; a create() of the
\* client registry returns an id that it has not returned and that is not
\* in its store.
C30_CreateStep ==
  /\ (lastOp'.op = "create" /\ replica'.nextId # replica.nextId) =>
       /\ lastOp'.id \notin replica.issued
       /\ ~MapHas(replica.store, lastOp'.id)
  /\ (lastOp'.op = "create" /\ nextId' # nextId) =>
       /\ lastOp'.id \notin replica.made
       /\ ~MapHas(entities, lastOp'.id)

\* C30: every call to create() returns an id that differs from every id
\* returned by an earlier create() (including ids of entities since
\* destroyed and of entities of other registries in the same process), and
\* create() never replaces an entity that is already in the registry's
\* store, on server and client registries alike.
C30_CreateReturnsFreshId == [][C30_CreateStep]_vars

(***************************************************************************)
(* The room of two clients: joining, leaving, START_GAME and GAME_ACTION   *)
(* messages, the latter also from clients that have no player record.      *)
(***************************************************************************)
\* The GAME_ACTION messages the clients send: two that the schemas accept
\* and two that they reject.
LobbyMessages ==
  {[action |-> MOVE_PLAYER, data |-> Vec2(1, 0)],
   [action |-> TOGGLE_ATTACK_MODE, data |-> [type |-> 1]],
   [action |-> MOVE_PLAYER, data |-> [x |-> 1]],
   Undefined}

LobbyNext ==
  \/ \E s \in Sessions : onJoin(s)
  \/ \E s \in Sessions : onLeave(s)
  \/ \E s \in Sessions : handleStartGameFrom(s)
  \/ \E s \in Sessions : \E m \in LobbyMessages : gameActionFrom(s, m)

SpecLobby == RoomInit /\ [][LobbyNext]_vars

(***************************************************************************)
(* Claims about the room.                                                  *)
(***************************************************************************)
\* The sender of the message of lastOp has a player record and the game has
\* started.
Admitted(cl, info, s) == cl[s] = "joined" /\ info.started

\* A GAME_ACTION message that changes the queue comes from a client with a
\* player record in a started room; a message in any other room state
\* changes neither the queue nor the store nor the players.
C31_MessageStep ==
  lastOp'.op = "gameAction" =>
    /\ actionQueue' # actionQueue => Admitted(clients, roomInfo, lastOp'.sid)
    /\ ~Admitted(clients, roomInfo, lastOp'.sid) =>
         /\ actionQueue' = actionQueue
         /\ entities' = entities
         /\ players' = players
         /\ queryEntities' = queryEntities

\* C31: a GAME_ACTION message leads to an enqueue only if the sending client
\* has a player record in the room and roomInfo.started is true; in every
\* other room state (before start, sender not joined or already left) the
\* message changes neither the action queue nor any entity, component or
\* player field.
C31_ActionsGated == [][C31_MessageStep]_vars

\* A well-formed message has arrived from a client that left a started
\* room in which an admitted message is pending.
C31_Witness ==
  /\ lastOp.op = "gameAction"
  /\ roomInfo.started
  /\ clients[lastOp.sid] = "left"
  /\ gameActionSchema(lastOp.msg)
  /\ actionQueue # <<>>

(***************************************************************************)
(* MOVE_PLAYER and the physics tick that follows it: the body of a player  *)
(* above a static body.  Lengths and velocities are in units of 1 / Unit;  *)
(* frictionAir is in hundredths.  Matter.Engine.update is not part of the  *)
(* sources; the step below is its integrator for a body that nothing       *)
(* blocks (velocity = velocity * (1 - frictionAir) + gravity * scale *     *)
(* delta ^ 2, position = position + velocity, for the delta of 1000 / 60   *)
(* milliseconds that Engine.fixedUpdate passes), and a body that would     *)
(* sink into the static body below it is held on it.                       *)
(***************************************************************************)
Unit == 18000

PLAYER_MOVE_FORCE == 9000

PLAYER_AIR_MOVE_FORCE == 4500

PLAYER_JUMP_FORCE == 25200

playerHeight == 30600

\* sharedEngineOptions.gravity.y
gravityY == -3600

\* The frictionAir createPlayer and PlayerSystem give the player's body.
AirFrictions == {5, 20, 40}

\* The distance between the player's body and the static body below it.
Gaps == {0, 300, 18000}

Directions == {-1, 0, 1}

\* The collision groups of the static body.
Groups == {"GROUND_GROUP", "SPIKE_GROUP"}

\* (collider.height / 2) * 1.02
rayLength == ((playerHeight \div 2) * 102) \div 100

\* engine.physics.queryRay(transform.position, new Vec2(0, -1), length) and
\* the test of the bodies it reports for the group GROUND_GROUP.  The top
\* of the static body is at height 0 and the ray ends at position.y -
\* length.
isGrounded(j) == j.group = "GROUND_GROUP" /\ j.position.y - rayLength <= 0

\* The handler jumps whatever the ray reports.
movePlayerJumpAlways(j) ==
  [j EXCEPT !.velocity = Vec2(IF j.dir.x # 0 THEN j.dir.x * PLAYER_MOVE_FORCE ELSE @.x,
                              IF j.dir.y = 1 THEN PLAYER_JUMP_FORCE ELSE @.y)]

\* movePlayerAction on the player's Rigidbody: the two calls of
\* Rigidbody.setVelocity.
movePlayer(j) ==
  [j EXCEPT !.velocity =
     Vec2(IF j.dir.x # 0
          THEN j.dir.x * (IF isGrounded(j) THEN PLAYER_MOVE_FORCE ELSE PLAYER_AIR_MOVE_FORCE)
          ELSE @.x,
          IF j.dir.y = 1 /\ isGrounded(j) THEN PLAYER_JUMP_FORCE ELSE @.y)]

\* The velocity after Matter's integration.
integrated(j) ==
  Vec2((j.velocity.x * (100 - j.frictionAir)) \div 100,
       (j.velocity.y * (100 - j.frictionAir)) \div 100 + (gravityY * 5) \div 18)

\* Matter.Engine.update and the sync step: the body moves by its velocity
\* unless the static body holds it.
stepped(j) ==
  IF j.position.y + integrated(j).y < playerHeight \div 2
  THEN [j EXCEPT !.position.y = playerHeight \div 2,
                 !.velocity = Vec2(integrated(j).x, 0)]
  ELSE [j EXCEPT !.position.y = @ + integrated(j).y, !.velocity = integrated(j)]

\* PlayerSystem.fixedUpdate, which runs after the PhysicsWorld: the
\* frictionAir of a player that is not blocked at a side.
playerFriction(j) == [j EXCEPT !.frictionAir = IF isGrounded(j) THEN 40 ELSE 5]

JumpStep(op, j) ==
  /\ jump' = j
  /\ lastOp' = [NoOp EXCEPT !.op = op]
  /\ lastErr' = "none"
  /\ ResetHistory
  /\ UNCHANGED <<type, nextId, entities, systems, entityQueries, queryEntities, players,
                 handlers, validators, actionQueue, bodies, clients, roomInfo, started,
                 updateCallbacks, timers, matter, collisions, constraints, replica, runs,
                 loop>>

\* The player's body is at rest on the static body, or above it and at
\* rest or falling, and a MOVE_PLAYER action with the direction dir is in
\* the queue.
jumpScene(gap, vy, group, frictionAir, dir) ==
  /\ jump.phase = "none"
  /\ gap = 0 => vy = 0
  /\ JumpStep("scene",
              [phase |-> "rest", position |-> Vec2(0, playerHeight \div 2 + gap),
               velocity |-> Vec2(0, vy), group |-> group, frictionAir |-> frictionAir,
               dir |-> dir, grounded |-> FALSE, before |-> Vec2(0, vy), gap |-> gap])

\* actions.flush of Engine.fixedUpdate: the handler of MOVE_PLAYER.
jumpFlush ==
  /\ jump.phase = "rest"
  /\ JumpStep("flush", [movePlayer(jump) EXCEPT !.phase = "flushed",
                                                !.grounded = isGrounded(jump)])

\* registry.fixedUpdate of the same Engine.fixedUpdate: the PhysicsWorld,
\* then the PlayerSystem.
jumpTick ==
  /\ jump.phase = "flushed"
  /\ JumpStep("tick", [playerFriction(stepped(jump)) EXCEPT !.phase = "ticked"])

JumpNext ==
  \/ \E gap \in Gaps, vy \in {0, -1000}, group \in Groups, frictionAir \in AirFrictions,
        x \in Directions, y \in Directions :
       jumpScene(gap, vy, group, frictionAir, Vec2(x, y))
  \/ jumpFlush
  \/ jumpTick

SpecJump == EngineInit /\ [][JumpNext]_vars

(***************************************************************************)
(* Claims about the jump.                                                  *)
(***************************************************************************)
\* A grounded player with dir.y = 1 has the vertical velocity
\* PLAYER_JUMP_FORCE when the flush returns, and the ray of the handler
\* reported the ground; a player that is not grounded has the vertical
\* velocity it had.
C32_FlushStep ==
  lastOp'.op = "flush" =>
    /\ (isGrounded(jump) /\ jump.dir.y = 1) => jump'.velocity.y = PLAYER_JUMP_FORCE
    /\ ~isGrounded(jump) => jump'.velocity.y = jump.velocity.y

\* C32 (as the handler has it): for a player entity with a rectangle
\* collider at rest on a static ground collider, when a MOVE_PLAYER action
\* with dir.y = 1 has been flushed the vertical velocity of the player's
\* Rigidbody equals PLAYER_JUMP_FORCE, the downward ray query of the handler
\* having reported the ground body; the same action for a player that is
\* not grounded leaves the vertical velocity unchanged by the handler.
C32_JumpOnFlush == [][C32_FlushStep]_vars

\* A player that was at rest on the ground has had a MOVE_PLAYER action
\* with dir.y = 1 flushed and the physics tick has run.
C32_Witness ==
  /\ jump.phase = "ticked"
  /\ jump.gap = 0
  /\ jump.grounded
  /\ jump.dir.y = 1

\* C32 (as stated): after the flush and one physics tick the vertical
\* velocity of a player that was at rest on the ground equals
\* PLAYER_JUMP_FORCE and the downward ray from the player's position reports
\* the ground body.
C32_JumpAfterTick ==
  (jump.phase = "ticked" /\ jump.gap = 0 /\ jump.grounded /\ jump.dir.y = 1) =>
    /\ jump.velocity.y = PLAYER_JUMP_FORCE
    /\ isGrounded(jump)

(***************************************************************************)
(* Claims about the goal of a level.                                       *)
(***************************************************************************)
\* GoalComponent.COMPONENT_ID
GoalComponentId == 3

\* The entities of the store that carry a GoalComponent.
Goals == {id \in MapKeys(entities) : MapHas(MapGet(entities, id), toString(GoalComponentId))}

\* C33: when two player entities have each collided with the goal collider
\* tagged for players 1 and 2, the level-completion counter increments
\* exactly once, all entities of the previous level are destroyed and the
\* next level's entities are created.  The case needs a goal collider: the
\* store of a started game holds an entity with a GoalComponent.
C33_LevelHasGoal == roomInfo.started => Goals # {}

(***************************************************************************)
(* Engine.stop() called from inside update().  The world carries the       *)
(* engine's started field as `on`, and the trace gets a "stop" entry at    *)
(* the point where a handler or a system callback calls engine.stop().     *)
(***************************************************************************)
\* Who calls engine.stop() during update(): nobody, a handler the flush
\* dispatches, or the fixedUpdate callback of a system.
StopSites == {"none", "handler", "fixedUpdate"}

\* The world of an update() together with Engine.started.
StopWorld == [on |-> started] @@ World

\* Engine.stop()
stop(w) ==
  IF ~Ok(w) \/ ~w.on THEN w ELSE [Mark(w, "stop", "") EXCEPT !.on = FALSE]

\* The trace of w1 holds an entry of the kind that the trace of w0, its
\* prefix, does not hold.
Ran(w0, w1, kind) ==
  \E i \in Len(w0.trace) + 1 .. Len(w1.trace) : w1.trace[i].kind = kind

\* Engine.fixedUpdate(dt) when the code named by site calls engine.stop():
\* started is read once, at the top.
stoppableFixedUpdate(w, hit, site) ==
  IF ~w.on THEN w
  ELSE LET f == Mark(flushWorld(Mark(Mark(w, "tick", ""), "flush", "")), "flushed", "")
           f1 == IF site = "handler" /\ Ran(w, f, "handler") THEN stop(f) ELSE f
           r == registryFixedUpdate(runCallbacks(f1, PRE_FIXED_UPDATE), hit)
           r1 == IF site = "fixedUpdate" /\ Ran(f1, r, "fixedUpdate") THEN stop(r) ELSE r
       IN  runCallbacks(r1, POST_FIXED_UPDATE)

\* The while loop of Engine.update: k calls of fixedUpdate.
RECURSIVE stoppableFixedUpdates(_, _, _, _)
stoppableFixedUpdates(w, k, hit, site) ==
  IF ~Ok(w) \/ k = 0 THEN w
  ELSE stoppableFixedUpdates(stoppableFixedUpdate(w, hit, site), k - 1, hit, site)

\* Engine.update(): started is read once, before the loop.
stoppableUpdate(w, k, hit, site) ==
  IF ~w.on THEN w
  ELSE runCallbacks(registryUpdate(runCallbacks(stoppableFixedUpdates(w, k, hit, site),
                                                PRE_UPDATE)),
                    POST_UPDATE)

\* The simulation interval's call of Engine.update().
stoppableUpdateCall(k, hit, site) ==
  /\ SetWorld(stoppableUpdate(StopWorld, k, hit, site))
  /\ started' = stoppableUpdate(StopWorld, k, hit, site).on
  /\ flushed' = IF started /\ k > 0 THEN actionQueue ELSE <<>>
  /\ lastOp' = [NoOp EXCEPT !.op = "update", !.inst = k, !.pre = started]
  /\ UNCHANGED <<type, systems, entityQueries, handlers, validators, clients, roomInfo,
                 updateCallbacks, timers, matter, collisions, extVars>>

\* Engine.start() and Engine.stop() called between two updates, on an engine
\* with manualUpdate.
startStopCall(go) ==
  /\ started' = go
  /\ ResetHistory
  /\ lastOp' = [NoOp EXCEPT !.op = IF go THEN "start" ELSE "stop", !.pre = started]
  /\ lastErr' = "none"
  /\ UNCHANGED <<type, nextId, entities, systems, entityQueries, queryEntities,
                 players, handlers, validators, actionQueue, bodies, clients,
                 roomInfo, updateCallbacks, timers, matter, collisions, extVars>>

StopNext ==
  \/ \E m \in LobbyMessages : gameActionFrom("s1", m)
  \/ \E t \in {PRE_UPDATE, POST_FIXED_UPDATE} : on(t)
  \/ \E go \in BOOLEAN : startStopCall(go)
  \/ \E k \in 0 .. MaxTicks : \E hit \in BOOLEAN : \E site \in StopSites :
       stoppableUpdateCall(k, hit, site)

\* A started game on the server.
StopInit == HandlersInit /\ type = "SERVER"

SpecStop == StopInit /\ [][StopNext]_vars

(***************************************************************************)
(* Claims about a stopped engine.                                          *)
(***************************************************************************)
\* The entries of the trace that are invocations: a flush, a handler, a
\* system callback or an update callback.
Invocation(e) ==
  e.kind \in {"flush", "handler", "fixedUpdate", "update", "stateUpdate",
              PRE_FIXED_UPDATE, POST_FIXED_UPDATE, PRE_UPDATE, POST_UPDATE}

\* C34: while the engine is not started, also from the moment stop() is
\* called inside a system callback or action handler in the middle of
\* update(), no action flush and no system or update callback is invoked:
\* no invocation follows a stop in the trace of an update.
C34_NothingRunsAfterStop ==
  \A i, j \in 1 .. Len(trace) :
    (i < j /\ trace[i].kind = "stop") => ~Invocation(trace[j])

(***************************************************************************)
(* Registry.has.                                                           *)
(***************************************************************************)
\* has(id) when the optional argument is absent (<<>>), has(id, component)
\* when it is given (<<ctype>>).  It assigns nothing: [err, ret].
has(id, component) ==
  IF component # <<>>
  THEN IF ~MapHas(entities, id)
       THEN [err |-> "Error", ret |-> Undefined]
       ELSE [err |-> "none", ret |-> hasComponent(MapGet(entities, id), ClassOf(component[1]))]
  ELSE [err |-> "none", ret |-> MapHas(entities, id)]

\* A call of registry.has: lastOp keeps the arguments and what it returned.
hasCall(id, component) ==
  /\ lastOp' = [ret |-> has(id, component).ret] @@
               [NoOp EXCEPT !.op = "has", !.id = id,
                            !.ctype = IF component = <<>> THEN -1 ELSE component[1],
                            !.pre = MapHas(entities, id)]
  /\ lastErr' = has(id, component).err
  /\ UNCHANGED <<type, nextId, entities, systems, entityQueries, queryEntities,
                 actVars, roomVars>>

HasNext ==
  \/ create /\ UNCHANGED <<actVars, roomVars>>
  \/ \E id \in Ids : destroy(id) /\ UNCHANGED <<actVars, roomVars>>
  \/ \E id \in Ids, c \in ComponentIds : add(id, Component(c, 1)) /\ UNCHANGED <<actVars, roomVars>>
  \/ \E id \in Ids, c \in ComponentIds : remove(id, c) /\ UNCHANGED <<actVars, roomVars>>
  \/ \E id \in Ids : hasCall(id, <<>>)
  \/ \E id \in Ids : \E c \in ComponentIds : hasCall(id, <<c>>)

SpecHas == EngineInit /\ [][HasNext]_vars

(***************************************************************************)
(* Claims about has.                                                       *)
(***************************************************************************)
\* A call of has returns a boolean without raising: true when the id is in
\* the store and, if a component type is given, the entity carries it,
\* false in every other case; it changes no state.
C35_HasStep ==
  lastOp'.op = "has" =>
    /\ lastErr' = "none"
    /\ lastOp'.ret =
         (/\ MapHas(entities, lastOp'.id)
          /\ lastOp'.ctype # -1 =>
               MapHas(MapGet(entities, lastOp'.id), toString(lastOp'.ctype)))
    /\ UNCHANGED <<type, nextId, entities, systems, entityQueries, queryEntities>>

\* C35: has(id) returns true exactly when id is in the store; has(id,
\* componentType) returns true exactly when id is in the store and the
\* entity carries that component type, and false in every other case;
\* neither form changes any state.
C35_HasIsTotal == [][C35_HasStep]_vars

(***************************************************************************)
(* Claims about the time scale.                                            *)
(***************************************************************************)
\* A call of update() on a started engine returns.
C36_ReturnStep ==
  (lastOp'.op = "Engine.update" /\ started /\ loop.timeScale >= 0) => loop'.returned

\* C36: for every time scale that setTimeScale accepts (any value greater
\* than or equal to 0, including 0), a call of update() on a started engine
\* performs finitely many fixed ticks and returns.
C36_UpdateReturns == [][C36_ReturnStep]_vars

(***************************************************************************)
(* The update loop of an engine without manualUpdate: update() ends with   *)
(* requestAnimationFrame(() => this.update()).  timers holds the           *)
(* animation-frame callbacks that have been requested and have not run.    *)
(***************************************************************************)
\* Upper bound on the animation-frame callbacks that are pending.
MaxFrames == 2

\* The callback () => this.update() handed to requestAnimationFrame.
Frame == [action |-> -1, data |-> "update"]

\* update() past its started check: the trace gets a "frame" entry, then
\* the fixed ticks and the systems' update run.
frameUpdate(w, k) == stoppableUpdate(Mark(w, "frame", ""), k, FALSE, "none")

\* The n callbacks of one animation frame, each a call of update() on a
\* started engine: the first finds k fixed steps due, the others none.
RECURSIVE frameUpdates(_, _, _)
frameUpdates(w, n, k) ==
  IF ~Ok(w) \/ n = 0 THEN w
  ELSE frameUpdates(frameUpdate(w, k), n - 1, 0)

\* Engine.start() without manualUpdate: its call of update() finds one
\* fixed step due and requests an animation frame.
frameStart ==
  /\ Len(timers) < MaxFrames
  /\ started' = TRUE
  /\ SetWorld(IF started THEN World ELSE frameUpdate([on |-> TRUE] @@ World, 1))
  /\ timers' = IF started THEN timers ELSE Append(timers, Frame)
  /\ flushed' = IF started THEN <<>> ELSE actionQueue
  /\ lastOp' = [NoOp EXCEPT !.op = "start", !.pre = started]
  /\ UNCHANGED <<type, systems, entityQueries, handlers, validators, clients, roomInfo,
                 updateCallbacks, matter, collisions, extVars>>

\* The browser runs the callbacks requested before this animation frame.
\* Each calls update(): on a stopped engine it returns at once, on a
\* started one it runs and requests the next frame.
animationFrame(k) ==
  /\ timers # <<>>
  /\ SetWorld(IF started THEN frameUpdates(StopWorld, Len(timers), k) ELSE World)
  /\ timers' = IF started THEN timers ELSE <<>>
  /\ flushed' = IF started /\ k > 0 THEN actionQueue ELSE <<>>
  /\ lastOp' = [NoOp EXCEPT !.op = "frame", !.inst = Len(timers), !.pre = started]
  /\ UNCHANGED <<type, systems, entityQueries, handlers, validators, clients, roomInfo,
                 started, updateCallbacks, matter, collisions, extVars>>

FramesNext ==
  \/ frameStart
  \/ startStopCall(FALSE)
  \/ \E k \in {0, 1} : animationFrame(k)
  \/ \E d \in Payloads(MOUSE_DIR) : enqueue(MOUSE_DIR, d) /\ UNCHANGED roomVars
  \/ register(MOUSE_DIR) /\ UNCHANGED roomVars

SpecFrames == LoopInit /\ [][FramesNext]_vars

(***************************************************************************)
(* Claims about the animation frames.                                      *)
(***************************************************************************)
\* The calls of update() that ran in the last animation frame.
FrameRuns == {i \in 1 .. Len(trace) : trace[i].kind = "frame"}

\* C37: with manualUpdate false at most one future update() invocation is
\* scheduled at any time, whatever start() and stop() calls were made, and
\* update() runs at most once per animation frame.
C37_OneLoop ==
  /\ Len(timers) <= 1
  /\ Cardinality(FrameRuns) <= 1

(***************************************************************************)
(* Handlers that enqueue.  In this specification handlers maps an action   *)
(* type to the action type its handler enqueues without delay (-1: the     *)
(* handler enqueues nothing); every validator accepts.                     *)
(***************************************************************************)
\* Upper bound on the dispatches of one flush the model follows.
MaxDispatch == 6

\* What a registered handler enqueues.
Relays == QueueTypes \cup {-1}

\* ActionsManager.register(action, handler, validator)
registerRelay(action, next) ==
  /\ handlers' = MapSet(handlers, action, next)
  /\ validators' = validators \cup {action}
  /\ lastOp' = [NoOp EXCEPT !.op = "register"]
  /\ lastErr' = "none"
  /\ flushed' = <<>>
  /\ trace' = <<>>
  /\ touched' = {}
  /\ UNCHANGED <<type, nextId, entities, systems, entityQueries, queryEntities,
                 players, actionQueue, bodies>>

\* fire(engine, action, data, dt) with a handler that calls
\* engine.actions.enqueue: [queue, trace].
relayFire(q, tr, a) ==
  IF ~MapHas(handlers, a.action) \/ a.action \notin validators
  THEN [queue |-> q, trace |-> tr]
  ELSE [queue |-> IF MapGet(handlers, a.action) = -1 THEN q
                  ELSE Append(q, [action |-> MapGet(handlers, a.action),
                                  data |-> Undefined]),
        trace |-> Append(tr, Event("handler", a))]

\* The for-of loop of flush from index i, over the array the handlers push
\* to; a loop that has dispatched MaxDispatch actions and is not at the end
\* of the array has not returned.
RECURSIVE relayFlushFrom(_, _, _)
relayFlushFrom(q, tr, i) ==
  IF i > Len(q) THEN [queue |-> <<>>, trace |-> tr, returned |-> TRUE]
  ELSE IF i > MaxDispatch THEN [queue |-> q, trace |-> tr, returned |-> FALSE]
  ELSE relayFlushFrom(relayFire(q, tr, q[i]).queue, relayFire(q, tr, q[i]).trace, i + 1)

\* A for-of loop over the actions that were pending when flush was called;
\* what the handlers enqueue stays in the queue.
RECURSIVE relayFlushSnapshot(_, _, _, _)
relayFlushSnapshot(q, tr, i, n) ==
  IF i > n THEN [queue |-> SubSeq(q, n + 1, Len(q)), trace |-> tr, returned |-> TRUE]
  ELSE relayFlushSnapshot(relayFire(q, tr, q[i]).queue, relayFire(q, tr, q[i]).trace,
                          i + 1, n)

\* ActionsManager.flush(engine, dt)
relayFlush ==
  /\ actionQueue' = relayFlushFrom(actionQueue, <<>>, 1).queue
  /\ trace' = relayFlushFrom(actionQueue, <<>>, 1).trace
  /\ flushed' = actionQueue
  /\ touched' = {}
  /\ lastOp' = [returned |-> relayFlushFrom(actionQueue, <<>>, 1).returned] @@
               [NoOp EXCEPT !.op = "flush"]
  /\ lastErr' = "none"
  /\ UNCHANGED <<type, nextId, entities, systems, entityQueries, queryEntities,
                 players, handlers, validators, bodies>>

\* The last call has returned: nothing follows a flush that has not.
Returned == lastOp.op = "flush" => lastOp.returned

RelayNext ==
  \/ Returned /\ \E a \in QueueTypes : enqueue(a, Undefined) /\ UNCHANGED roomVars
  \/ Returned /\ \E a \in QueueTypes : \E next \in Relays :
                    registerRelay(a, next) /\ UNCHANGED roomVars
  \/ Returned /\ relayFlush /\ UNCHANGED roomVars

SpecRelay == ActionsInit /\ [][RelayNext]_vars

(***************************************************************************)
(* Claims about handlers that enqueue.                                     *)
(***************************************************************************)
\* A flush returns, dispatches at most the actions that were pending when
\* it started, and leaves in the queue what its handlers enqueued.
C38_FlushStep ==
  lastOp'.op = "flush" =>
    /\ lastOp'.returned
    /\ Len(trace') <= Len(actionQueue)
    /\ actionQueue' = relayFlushSnapshot(actionQueue, <<>>, 1, Len(actionQueue)).queue

\* C38: an action enqueued without delay by a handler while flush is running
\* is not dispatched in that flush but in the next one, so every flush
\* dispatches at most the number of actions that were pending when it
\* started and always terminates.
C38_EnqueuedWaitsForNextFlush == [][C38_FlushStep]_vars

(***************************************************************************)
(* Claims about START_GAME.                                                *)
(***************************************************************************)
\* The client is in the room and its player record is the host's.
IsHost(s) == clients[s] = "joined" /\ players[s].isHost

\* Entities are created, and the engine is started, only by the START_GAME
\* that sets roomInfo.started, on an empty store; a START_GAME from a
\* client that is not the host, after the start, or in a room that is not
\* startable changes nothing; roomInfo.started is never reset.
C39_StartStep ==
  /\ (entities' # entities \/ nextId' # nextId \/ started' # started) =>
       /\ lastOp'.op = "handleStartGame"
       /\ ~roomInfo.started /\ roomInfo'.started
       /\ entities = {} /\ started'
  /\ (/\ lastOp'.op = "handleStartGame"
      /\ (roomInfo.started \/ ~IsHost(lastOp'.sid) \/ ~roomInfo.startable)) =>
       /\ entities' = entities
       /\ nextId' = nextId
       /\ started' = started
       /\ roomInfo' = roomInfo
  /\ roomInfo.started => roomInfo'.started

\* C39: in a room, player entities and level entities are created at most
\* once over the room's lifetime and only in a state in which
\* roomInfo.started is true: a START_GAME from a non-host, a repeated
\* START_GAME after the game started, or a START_GAME while
\* roomInfo.startable is false creates no entity and does not start the
\* engine.
C39_CreatedOnceWhenStarted == [][C39_StartStep]_vars

\* A non-host that joined before the start has sent START_GAME to the
\* started room, whose store holds the entities of both players.
C39_Witness ==
  /\ lastOp.op = "handleStartGame"
  /\ lastOp.sid = "s2"
  /\ clients["s2"] = "joined"
  /\ ~players["s2"].isHost
  /\ roomInfo.started
  /\ started
  /\ Len(roomInfo.order) = 2
  /\ entities # {}

(***************************************************************************)
(* Claims about the portals.                                               *)
(***************************************************************************)
\* The portal entities the players' portals maps name.
PortalsOf(p) == {e[2] : e \in players[p].portals}

\* During the last update a projectile started to collide with portal
\* ground.
ProjectileHit == \E i \in 1 .. Len(trace) : trace[i].kind = "collisionStart"

\* C40: on the server, when a projectile hits portal ground the projectile
\* entity is destroyed and afterwards player.portals maps the type to the
\* id of an entity that is in the store; each player has at most one portal
\* of each type.
C40_PortalPlaced ==
  /\ \A p \in Sessions : \A e \in players[p].portals :
       \A f \in players[p].portals : e[1] = f[1] => e = f
  /\ (type = "SERVER" /\ ProjectileHit) =>
       /\ lastErr = "none"
       /\ MapHas(players["s1"].portals, toString(0))
       /\ MapHas(entities, MapGet(players["s1"].portals, toString(0)))
====
